---------------------------- MODULE Spec2Model ----------------------------
(***************************************************************************)
(* A model of the PGN import pipeline of backend/modules/chess/src/pgn.rs: *)
(* parse_pgn (parse_headers, parse_moves) followed by validate_game.       *)
(*                                                                         *)
(* Text is a sequence of one-character strings, so the regular expressions *)
(* of the source are modelled by what they match, character by character.  *)
(* The chess rules library (shakmaty) is outside the repository; it is     *)
(* modelled as a legality oracle that plays the rules on a real 8x8 board, *)
(* for the SAN forms [NBRQK]?[a-h][1-8].                                   *)
(***************************************************************************)
EXTENDS Integers, Sequences, FiniteSets, TLC

(***************************************************************************)
(* Characters and character classes (the classes of the regex crate).      *)
(***************************************************************************)
UpperSeq ==
    <<"A","B","C","D","E","F","G","H","I","J","K","L","M",
      "N","O","P","Q","R","S","T","U","V","W","X","Y","Z">>

LowerSeq ==
    <<"a","b","c","d","e","f","g","h","i","j","k","l","m",
      "n","o","p","q","r","s","t","u","v","w","x","y","z">>

DigitSeq == <<"0","1","2","3","4","5","6","7","8","9">>

Range(f) == {f[i] : i \in DOMAIN f}

\* A character class: the characters of `chars`, or with neg all others.
Class(chars)    == [neg |-> FALSE, chars |-> chars]
NotClass(chars) == [neg |-> TRUE,  chars |-> chars]
InClass(c, class) == (c \in class.chars) # class.neg

\* \d
IsDigit == Class(Range(DigitSeq))

\* \w : letters, digits and the underscore
IsWord == Class(Range(UpperSeq) \cup Range(LowerSeq) \cup Range(DigitSeq) \cup {"_"})

\* \s, and the White_Space property used by str::trim and split_whitespace
SpaceChars == {" ", "\n", "\t", "\r"}
IsSpace(c) == c \in SpaceChars

\* char::to_lowercase on the characters of the model
LowerChar(c) ==
    IF c \in Range(UpperSeq)
    THEN LowerSeq[CHOOSE i \in DOMAIN UpperSeq : UpperSeq[i] = c]
    ELSE c

\* str::to_lowercase
to_lowercase(s) == [i \in 1..Len(s) |-> LowerChar(s[i])]

MinOf(S) == CHOOSE x \in S : \A y \in S : x <= y
MaxOf(S) == CHOOSE x \in S : \A y \in S : y <= x

\* The index of the last character of the longest run s[i..j] whose
\* characters are all of the class (i - 1 when s[i] is not): a greedy
\* repetition of the class.
RunEnd(s, i, class) ==
    LET bad == {j \in i..Len(s) : ~InClass(s[j], class)}
    IN  IF bad = {} THEN Len(s) ELSE MinOf(bad) - 1

\* Mutant: the text taken as it is.
trim_none(s) == s

\* str::trim : surrounding whitespace removed
trim(s) ==
    LET keep == {i \in 1..Len(s) : ~IsSpace(s[i])}
    IN  IF keep = {} THEN <<>> ELSE SubSeq(s, MinOf(keep), MaxOf(keep))

\* str::split_whitespace : the maximal runs of non-whitespace, in order
RECURSIVE split_whitespace(_)
split_whitespace(s) ==
    LET starts == {i \in 1..Len(s) : ~IsSpace(s[i])}
    IN  IF starts = {} THEN <<>>
        ELSE LET b == MinOf(starts)
                 e == RunEnd(s, b, NotClass(SpaceChars))
             IN  <<SubSeq(s, b, e)>> \o split_whitespace(SubSeq(s, e + 1, Len(s)))

\* The regexes of parse_moves are an opening character, a greedy run of a
\* class of at least `min` characters and, for some, a closing character.
Regex(open, body, min, close) ==
    [open |-> open, body |-> body, min |-> min, close |-> close]

\* The index of the last character of the match of re that starts at i,
\* or 0 when re does not match there.  No class holds its closing
\* character, so the greedy run is the only candidate.
regex_match_end(re, s, i) ==
    IF s[i] # re.open THEN 0
    ELSE LET e == RunEnd(s, i + 1, re.body)
         IN  IF e - i < re.min THEN 0
             ELSE IF re.close = <<>> THEN e
             ELSE IF e + 1 <= Len(s) /\ s[e + 1] = re.close[1] THEN e + 1
             ELSE 0

\* Regex::replace_all(text, " ") : every leftmost non-overlapping match is
\* replaced by one space.
RECURSIVE replace_all(_, _, _)
replace_all(re, s, i) ==
    IF i > Len(s) THEN <<>>
    ELSE LET e == regex_match_end(re, s, i)
         IN  IF e = 0 THEN <<s[i]>> \o replace_all(re, s, i + 1)
             ELSE <<" ">> \o replace_all(re, s, e + 1)

(***************************************************************************)
(* GameResult                                                              *)
(***************************************************************************)
Str_1_0   == <<"1","-","0">>
Str_0_1   == <<"0","-","1">>
Str_draw  == <<"1","/","2","-","1","/","2">>
Str_star  == <<"*">>
Str_White == <<"W","h","i","t","e">>
Str_Black == <<"B","l","a","c","k">>

\* enum PgnError: one record shape for all variants; text is the String
\* payload (or move_text), move_number is 0 and reason "" where the variant
\* has none.
PgnError(kind, text, move_number, reason) ==
    [kind |-> kind, text |-> text, move_number |-> move_number, reason |-> reason]

Ok(v)  == [ok |-> TRUE,  val |-> v]
Err(e) == [ok |-> FALSE, err |-> e]

\* Mutant: the default outcome is the first variant of the enum.
GameResult_default_first == "WhiteWins"

\* impl Default for GameResult
GameResult_default == "Ongoing"

\* Mutant: an unknown literal falls back to the default outcome.
from_pgn_string_default(s) ==
    LET t == trim(s)
    IN  IF t = Str_1_0 THEN Ok("WhiteWins")
        ELSE IF t = Str_0_1 THEN Ok("BlackWins")
        ELSE IF t = Str_draw THEN Ok("Draw")
        ELSE Ok("Ongoing")

\* GameResult::from_pgn_string
from_pgn_string(s) ==
    LET t == trim(s)
    IN  IF t = Str_1_0 THEN Ok("WhiteWins")
        ELSE IF t = Str_0_1 THEN Ok("BlackWins")
        ELSE IF t = Str_draw THEN Ok("Draw")
        ELSE IF t = Str_star THEN Ok("Ongoing")
        ELSE Err(PgnError("InvalidResult", t, 0, ""))

\* Mutant: the draw written as 1/2.
to_pgn_string_half(r) ==
    CASE r = "WhiteWins" -> Str_1_0
      [] r = "BlackWins" -> Str_0_1
      [] r = "Draw"      -> <<"1","/","2">>
      [] r = "Ongoing"   -> Str_star

\* GameResult::to_pgn_string
to_pgn_string(r) ==
    CASE r = "WhiteWins" -> Str_1_0
      [] r = "BlackWins" -> Str_0_1
      [] r = "Draw"      -> Str_draw
      [] r = "Ongoing"   -> Str_star

(***************************************************************************)
(* parse_headers                                                           *)
(***************************************************************************)
\* Option<String>: None is the empty tuple, Some(v) is <<v>>.
None    == <<>>
Some(v) == <<v>>

\* #[derive(Default)] PgnHeaders; `other` is the set of (key, value) pairs
\* of the HashMap.
PgnHeaders_default ==
    [event |-> None, site |-> None, date |-> None, round |-> None,
     white |-> <<>>, black |-> <<>>, result |-> GameResult_default,
     other |-> {}]

\* HashMap::insert
map_insert(m, k, v) == {p \in m : p[1] # k} \cup {<<k, v>>}

NoMatch == [found |-> FALSE, end |-> 0, key |-> <<>>, value |-> <<>>]

\* header_regex  \[(\w+)\s+"([^"]+)"\]  tried at offset i: the match that
\* starts there, with its two capture groups, or NoMatch.
header_regex(s, i) ==
    IF i > Len(s) \/ s[i] # "[" THEN NoMatch
    ELSE
    LET kEnd == RunEnd(s, i + 1, IsWord)
        wEnd == RunEnd(s, kEnd + 1, Class(SpaceChars))
        vEnd == RunEnd(s, wEnd + 2, NotClass({"\""}))
    IN  IF /\ kEnd >= i + 1
           /\ wEnd >= kEnd + 1
           /\ wEnd + 1 <= Len(s) /\ s[wEnd + 1] = "\""
           /\ vEnd >= wEnd + 2
           /\ vEnd + 2 <= Len(s) /\ s[vEnd + 1] = "\"" /\ s[vEnd + 2] = "]"
        THEN [found |-> TRUE, end |-> vEnd + 2,
              key |-> SubSeq(s, i + 1, kEnd), value |-> SubSeq(s, wEnd + 2, vEnd)]
        ELSE NoMatch

\* Regex::captures_iter : the leftmost non-overlapping matches from offset i
RECURSIVE captures_iter(_, _)
captures_iter(s, i) ==
    IF i > Len(s) THEN <<>>
    ELSE LET m == header_regex(s, i)
         IN  IF m.found THEN <<m>> \o captures_iter(s, m.end + 1)
             ELSE captures_iter(s, i + 1)

\* Mutant: a key that is not recognised is stored lowercased.
header_arm_lowercased(headers, cap) ==
    LET key   == to_lowercase(cap.key)
        value == cap.value
    IN  IF key = <<"e","v","e","n","t">> THEN Ok([headers EXCEPT !.event = Some(value)])
        ELSE IF key = <<"s","i","t","e">> THEN Ok([headers EXCEPT !.site = Some(value)])
        ELSE IF key = <<"d","a","t","e">> THEN Ok([headers EXCEPT !.date = Some(value)])
        ELSE IF key = <<"r","o","u","n","d">> THEN Ok([headers EXCEPT !.round = Some(value)])
        ELSE IF key = <<"w","h","i","t","e">> THEN Ok([headers EXCEPT !.white = value])
        ELSE IF key = <<"b","l","a","c","k">> THEN Ok([headers EXCEPT !.black = value])
        ELSE IF key = <<"r","e","s","u","l","t">>
             THEN LET r == from_pgn_string(value)
                  IN  IF r.ok THEN Ok([headers EXCEPT !.result = r.val]) ELSE r
        ELSE Ok([headers EXCEPT !.other = map_insert(@, key, value)])

\* The body of the for loop of parse_headers for one capture: the match on
\* the lowercased key.  The `?` on from_pgn_string returns the error.
header_arm(headers, cap) ==
    LET key   == to_lowercase(cap.key)
        value == cap.value
    IN  IF key = <<"e","v","e","n","t">> THEN Ok([headers EXCEPT !.event = Some(value)])
        ELSE IF key = <<"s","i","t","e">> THEN Ok([headers EXCEPT !.site = Some(value)])
        ELSE IF key = <<"d","a","t","e">> THEN Ok([headers EXCEPT !.date = Some(value)])
        ELSE IF key = <<"r","o","u","n","d">> THEN Ok([headers EXCEPT !.round = Some(value)])
        ELSE IF key = <<"w","h","i","t","e">> THEN Ok([headers EXCEPT !.white = value])
        ELSE IF key = <<"b","l","a","c","k">> THEN Ok([headers EXCEPT !.black = value])
        ELSE IF key = <<"r","e","s","u","l","t">>
             THEN LET r == from_pgn_string(value)
                  IN  IF r.ok THEN Ok([headers EXCEPT !.result = r.val]) ELSE r
        ELSE Ok([headers EXCEPT !.other = map_insert(@, cap.key, value)])

\* The for loop over the captures from the k-th on.
RECURSIVE header_loop(_, _, _)
header_loop(caps, k, headers) ==
    IF k > Len(caps) THEN Ok(headers)
    ELSE LET r == header_arm(headers, caps[k])
         IN  IF r.ok THEN header_loop(caps, k + 1, r.val) ELSE r

\* last_header_end once the loop has run over every capture
last_header_end(caps) == IF caps = <<>> THEN 0 ELSE caps[Len(caps)].end

\* Mutant: only the first required header is checked.
required_headers_white_only(headers) ==
    IF headers.white = <<>> THEN Err(PgnError("MissingHeader", Str_White, 0, ""))
    ELSE Ok(headers)

\* The checks after the loop: the required headers.
required_headers(headers) ==
    IF headers.white = <<>> THEN Err(PgnError("MissingHeader", Str_White, 0, ""))
    ELSE IF headers.black = <<>> THEN Err(PgnError("MissingHeader", Str_Black, 0, ""))
    ELSE Ok(headers)

\* fn parse_headers(pgn) -> Result<(PgnHeaders, &str), PgnError>
parse_headers(pgn) ==
    LET caps == captures_iter(pgn, 1)
        scan == header_loop(caps, 1, PgnHeaders_default)
    IN  IF ~scan.ok THEN scan
        ELSE LET req == required_headers(scan.val)
             IN  IF ~req.ok THEN req
                 ELSE Ok([headers   |-> req.val,
                          move_text |-> SubSeq(pgn, last_header_end(caps) + 1, Len(pgn))])

(***************************************************************************)
(* parse_moves                                                             *)
(***************************************************************************)
\* \{[^}]*\}
curly_comment_regex == Regex("{", NotClass({"}"}), 0, <<"}">>)

\* ;[^\n]*
semicolon_comment_regex == Regex(";", NotClass({"\n"}), 0, <<>>)

\* \$\d+
nag_regex == Regex("$", IsDigit, 1, <<>>)

\* \([^()]*\)
variation_regex == Regex("(", NotClass({"(", ")"}), 0, <<")">>)

\* Mutant: the pattern without its end anchor, ^\d+\.+
move_number_regex_prefix(token) ==
    LET d == RunEnd(token, 1, IsDigit)
        p == RunEnd(token, d + 1, Class({"."}))
    IN  d >= 1 /\ p >= d + 1

\* ^\d+\.+$
move_number_regex(token) ==
    LET d == RunEnd(token, 1, IsDigit)
        p == RunEnd(token, d + 1, Class({"."}))
    IN  d >= 1 /\ p >= d + 1 /\ p = Len(token)

\* ^(1-0|0-1|1/2-1/2|\*)$
result_regex(token) == token \in {Str_1_0, Str_0_1, Str_draw, Str_star}

\* Mutant: the result literals are let through.
is_move_token_keep_results(token) ==
    ~move_number_regex(token) /\ token # <<>>

\* The filter closure of parse_moves
is_move_token(token) ==
    ~move_number_regex(token) /\ ~result_regex(token) /\ token # <<>>

\* Every leftmost non-overlapping match of re in s from index i on taken out
\* and nothing put in its place.
RECURSIVE delete_all(_, _, _)
delete_all(re, s, i) ==
    IF i > Len(s) THEN <<>>
    ELSE LET e == regex_match_end(re, s, i)
         IN  IF e = 0 THEN <<s[i]>> \o delete_all(re, s, i + 1)
             ELSE delete_all(re, s, e + 1)

\* Mutant: the brace comments are deleted, not replaced by a space.
without_curly_comments_deleted(move_text) ==
    delete_all(curly_comment_regex, move_text, 1)

without_curly_comments(move_text) == replace_all(curly_comment_regex, move_text, 1)

\* Mutant: the rest-of-line comments are taken out before the brace comments.
without_semicolon_comments_first(move_text) ==
    replace_all(curly_comment_regex,
                replace_all(semicolon_comment_regex, move_text, 1), 1)

without_semicolon_comments(move_text) ==
    replace_all(semicolon_comment_regex, without_curly_comments(move_text), 1)

without_nags(move_text) ==
    replace_all(nag_regex, without_semicolon_comments(move_text), 1)

\* Mutant: the variations are left in the text.
without_variations_skipped(move_text) == without_nags(move_text)

\* Mutant: the pattern is applied a second time, to the text it left.
without_variations_twice(move_text) ==
    replace_all(variation_regex,
                replace_all(variation_regex, without_nags(move_text), 1), 1)

without_variations(move_text) ==
    replace_all(variation_regex, without_nags(move_text), 1)

\* Mutant: the tokenizer drops the tokens that are no SAN.
parse_moves_strict(move_text) ==
    SelectSeq(split_whitespace(without_variations(move_text)),
              LAMBDA token : is_move_token(token)
                             /\ Len(token) \in {2, 3}
                             /\ token[Len(token)] \in Range(DigitSeq))

\* fn parse_moves(move_text) -> Vec<String>
parse_moves(move_text) ==
    SelectSeq(split_whitespace(without_variations(move_text)), is_move_token)

(***************************************************************************)
(* parse_pgn                                                               *)
(***************************************************************************)
\* struct ParsedGame as parse_pgn builds it: final_fen is String::new() and
\* ply_count is 0.
ParsedGame(headers, moves) ==
    [headers |-> headers, moves |-> moves, final_fen |-> <<>>, ply_count |-> 0]

(***************************************************************************)
(* The chess rules library (shakmaty): Chess::default, San::from_str,      *)
(* San::to_move, Position::play and Fen::from_position.  A position is a   *)
(* full 8x8 board with side to move, castling rights, en passant square    *)
(* and the two move counters.  SAN is covered for the forms                *)
(* [NBRQK]?[a-h][1-8]; castling and promotion are outside the grammar.     *)
(***************************************************************************)
FileSeq == <<"a","b","c","d","e","f","g","h">>
RankSeq == <<"1","2","3","4","5","6","7","8">>

\* A square is <<file, rank>>; a board is the 64 squares a1, b1, ..., h8
\* in a row, "" on an empty square and the FEN letter of the piece else.
Squares == (1..8) \X (1..8)

At(board, sq) == board[(sq[2] - 1) * 8 + sq[1]]

\* The square at index i of a board
SquareOf(i) == <<((i - 1) % 8) + 1, ((i - 1) \div 8) + 1>>

WhitePieces == {"P","N","B","R","Q","K"}
BlackPieces == {"p","n","b","r","q","k"}

\* The piece character of a role for a colour, as FEN writes it.
PieceOf(role, turn) == IF turn = "w" THEN role ELSE LowerChar(role)

OwnPieces(turn)   == IF turn = "w" THEN WhitePieces ELSE BlackPieces
EnemyPieces(turn) == IF turn = "w" THEN BlackPieces ELSE WhitePieces
Other(turn)       == IF turn = "w" THEN "b" ELSE "w"

BackRank == <<"R","N","B","Q","K","B","N","R">>

\* Chess::default() : the standard initial setup
Chess_default ==
    [board |-> [i \in 1..Cardinality(Squares) |->
                    LET sq == SquareOf(i)
                    IN  CASE sq[2] = 1 -> BackRank[sq[1]]
                          [] sq[2] = 2 -> "P"
                          [] sq[2] = 7 -> "p"
                          [] sq[2] = 8 -> LowerChar(BackRank[sq[1]])
                          [] OTHER     -> ""],
     turn      |-> "w",
     castles   |-> {"K","Q","k","q"},
     ep        |-> None,
     halfmoves |-> 0,
     fullmoves |-> 1]

Abs(x) == IF x < 0 THEN -x ELSE x
Sgn(x) == IF x < 0 THEN -1 ELSE IF x > 0 THEN 1 ELSE 0

\* The squares strictly between a and b on a common rank, file or diagonal.
Between(a, b) ==
    LET df == b[1] - a[1]
        dr == b[2] - a[2]
        n  == IF Abs(df) > Abs(dr) THEN Abs(df) ELSE Abs(dr)
    IN  {<<a[1] + k * Sgn(df), a[2] + k * Sgn(dr)>> : k \in 1..(n - 1)}

PathClear(board, a, b) == \A sq \in Between(a, b) : At(board, sq) = ""

\* The piece on `from` attacks the square `to` (whatever stands there).
Attacks(board, from, to) ==
    LET p  == At(board, from)
        df == to[1] - from[1]
        dr == to[2] - from[2]
    IN  CASE p = "P" -> Abs(df) = 1 /\ dr = 1
          [] p = "p" -> Abs(df) = 1 /\ dr = -1
          [] p \in {"N","n"} -> {Abs(df), Abs(dr)} = {1, 2}
          [] p \in {"K","k"} -> from # to /\ Abs(df) <= 1 /\ Abs(dr) <= 1
          [] p \in {"B","b"} -> from # to /\ Abs(df) = Abs(dr) /\ PathClear(board, from, to)
          [] p \in {"R","r"} -> from # to /\ (df = 0 \/ dr = 0) /\ PathClear(board, from, to)
          [] p \in {"Q","q"} -> /\ from # to
                                /\ (df = 0 \/ dr = 0 \/ Abs(df) = Abs(dr))
                                /\ PathClear(board, from, to)
          [] OTHER -> FALSE

\* The king of `turn` stands attacked.
InCheck(board, turn) ==
    \E k \in Squares :
        /\ At(board, k) = PieceOf("K", turn)
        /\ \E from \in Squares :
               At(board, from) \in EnemyPieces(turn) /\ Attacks(board, from, k)

\* A pawn push from `from` to `to` (one step, or two from the home rank).
PawnPush(pos, from, to) ==
    LET dir  == IF pos.turn = "w" THEN 1 ELSE -1
        home == IF pos.turn = "w" THEN 2 ELSE 7
    IN  /\ to[1] = from[1]
        /\ At(pos.board, to) = ""
        /\ \/ to[2] = from[2] + dir
           \/ /\ from[2] = home
              /\ to[2] = from[2] + 2 * dir
              /\ At(pos.board, <<from[1], from[2] + dir>>) = ""

\* The piece on `from` may move to `to` by the movement rules alone.
PseudoLegal(pos, from, to) ==
    LET b == pos.board
    IN  IF At(b, from) \in {"P", "p"}
        THEN /\ to[2] \notin {1, 8}
             /\ \/ PawnPush(pos, from, to)
                \/ /\ Attacks(b, from, to)
                   /\ (At(b, to) \in EnemyPieces(pos.turn) \/ pos.ep = Some(to))
        ELSE Attacks(b, from, to) /\ At(b, to) \notin OwnPieces(pos.turn)

\* The board after the move from `from` to `to`; an en passant capture
\* also removes the pawn that was passed.
BoardAfter(pos, from, to) ==
    LET b    == pos.board
        isEp == At(b, from) \in {"P", "p"} /\ pos.ep = Some(to) /\ from[1] # to[1]
    IN  [i \in DOMAIN b |->
            LET sq == SquareOf(i)
            IN  IF sq = to THEN At(b, from)
                ELSE IF sq = from THEN ""
                ELSE IF isEp /\ sq = <<to[1], from[2]>> THEN ""
                ELSE b[i]]

\* Position::is_legal for a move of the side to move
is_legal(pos, m) ==
    /\ At(pos.board, m.from) = PieceOf(m.role, pos.turn)
    /\ PseudoLegal(pos, m.from, m.to)
    /\ ~InCheck(BoardAfter(pos, m.from, m.to), pos.turn)

\* The en passant square after a double pawn push, under
\* EnPassantMode::Legal: kept only when an enemy pawn can legally capture.
EpAfter(pos, from, to) ==
    LET b   == BoardAfter(pos, from, to)
        mid == <<from[1], (from[2] + to[2]) \div 2>>
        nxt == [board |-> b, turn |-> Other(pos.turn), ep |-> Some(mid)]
    IN  IF /\ At(pos.board, from) \in {"P", "p"}
           /\ Abs(to[2] - from[2]) = 2
           /\ \E c \in Squares :
                  /\ At(b, c) = PieceOf("P", Other(pos.turn))
                  /\ Attacks(b, c, mid)
                  /\ ~InCheck(BoardAfter(nxt, c, mid), Other(pos.turn))
        THEN Some(mid) ELSE None

\* Castling rights lost when a king or rook leaves, or a rook's corner is
\* moved onto.
CastlesAfter(pos, from, to) ==
    LET touched == {from, to}
    IN  pos.castles \ ( (IF <<5, 1>> \in touched THEN {"K", "Q"} ELSE {})
                   \cup (IF <<8, 1>> \in touched THEN {"K"} ELSE {})
                   \cup (IF <<1, 1>> \in touched THEN {"Q"} ELSE {})
                   \cup (IF <<5, 8>> \in touched THEN {"k", "q"} ELSE {})
                   \cup (IF <<8, 8>> \in touched THEN {"k"} ELSE {})
                   \cup (IF <<1, 8>> \in touched THEN {"q"} ELSE {}) )

\* San::from_str : the parsed SAN, or an error for anything outside
\* [NBRQK]?[a-h][1-8].
San_parse(token) ==
    LET n    == Len(token)
        sqOk == /\ n >= 2
                /\ token[n - 1] \in Range(FileSeq)
                /\ token[n] \in Range(RankSeq)
        to   == <<CHOOSE f \in 1..8 : FileSeq[f] = token[n - 1],
                  CHOOSE r \in 1..8 : RankSeq[r] = token[n]>>
    IN  IF sqOk /\ n = 2 THEN Ok([role |-> "P", to |-> to])
        ELSE IF sqOk /\ n = 3 /\ token[1] \in {"N","B","R","Q","K"}
             THEN Ok([role |-> token[1], to |-> to])
        ELSE Err("ParseSanError")

\* Position::san_candidates : the legal moves of a role to a square
san_candidates(pos, role, to) ==
    {m \in {[role |-> role, from |-> from, to |-> to] : from \in Squares} :
        is_legal(pos, m)}

\* San::to_move : the unique legal move the SAN denotes in the position
San_to_move(san, pos) ==
    LET legals == san_candidates(pos, san.role, san.to)
    IN  IF legals = {} THEN Err("IllegalSan")
        ELSE IF Cardinality(legals) > 1 THEN Err("AmbiguousSan")
        ELSE Ok(CHOOSE m \in legals : TRUE)

\* Position::play : validates the move and returns the position after it
Position_play(pos, m) ==
    IF ~is_legal(pos, m) THEN Err("PlayError")
    ELSE Ok([board     |-> BoardAfter(pos, m.from, m.to),
             turn      |-> Other(pos.turn),
             castles   |-> CastlesAfter(pos, m.from, m.to),
             ep        |-> EpAfter(pos, m.from, m.to),
             halfmoves |-> IF m.role = "P" \/ At(pos.board, m.to) # ""
                           THEN 0 ELSE pos.halfmoves + 1,
             fullmoves |-> IF pos.turn = "b" THEN pos.fullmoves + 1
                           ELSE pos.fullmoves])

\* The decimal digits of a number
RECURSIVE Decimal(_)
Decimal(n) ==
    IF n < 10 THEN <<DigitSeq[n + 1]>>
    ELSE Decimal(n \div 10) \o <<DigitSeq[(n % 10) + 1]>>

\* One rank of the FEN board field from file f on, `run` empty squares
\* pending.
RECURSIVE FenRank(_, _, _, _)
FenRank(board, r, f, run) ==
    LET flush == IF run = 0 THEN <<>> ELSE Decimal(run)
    IN  IF f > 8 THEN flush
        ELSE IF At(board, <<f, r>>) = "" THEN FenRank(board, r, f + 1, run + 1)
        ELSE flush \o <<At(board, <<f, r>>)>> \o FenRank(board, r, f + 1, 0)

RECURSIVE FenBoard(_, _)
FenBoard(board, r) ==
    IF r = 1 THEN FenRank(board, 1, 1, 0)
    ELSE FenRank(board, r, 1, 0) \o <<"/">> \o FenBoard(board, r - 1)

\* Fen::from_position(position, EnPassantMode::Legal).to_string()
Fen_from_position(pos) ==
    FenBoard(pos.board, 8) \o <<" ", pos.turn, " ">>
    \o (IF pos.castles = {} THEN <<"-">>
        ELSE SelectSeq(<<"K","Q","k","q">>, LAMBDA c : c \in pos.castles))
    \o <<" ">>
    \o (IF pos.ep = None THEN <<"-">>
        ELSE <<FileSeq[pos.ep[1][1]], RankSeq[pos.ep[1][2]]>>)
    \o <<" ">> \o Decimal(pos.halfmoves) \o <<" ">> \o Decimal(pos.fullmoves)

(***************************************************************************)
(* validate_game                                                           *)
(***************************************************************************)
\* PgnError::IllegalMove { move_number, move_text, reason }
IllegalMove(move_number, move_text, reason) ==
    PgnError("IllegalMove", move_text, move_number, reason)

\* Mutant: the index taken as counting from 1.
move_number_of_from1(idx) == ((idx + 1) \div 2) + 1

\* Mutant: one move number per token.
move_number_of_ply(idx) == idx + 1

\* let move_number = (idx / 2) + 1;   idx is enumerate()'s index, from 0
move_number_of(idx) == (idx \div 2) + 1

\* Mutant: every token resolved against the initial position.
replay_token_initial(position, idx, move_san) ==
    LET san == San_parse(move_san)
    IN  IF ~san.ok
        THEN Err(IllegalMove(move_number_of(idx), move_san, "Invalid move notation"))
        ELSE
        LET chess_move == San_to_move(san.val, Chess_default)
        IN  IF ~chess_move.ok
            THEN Err(IllegalMove(move_number_of(idx), move_san,
                                 "Move is not legal in this position"))
            ELSE
            LET played == Position_play(position, chess_move.val)
            IN  IF ~played.ok
                THEN Err(IllegalMove(move_number_of(idx), move_san,
                                     "Move leaves king in check"))
                ELSE played

\* Mutant: a token that resolves to no legal move is passed over.
replay_token_lenient(position, idx, move_san) ==
    LET san == San_parse(move_san)
    IN  IF ~san.ok
        THEN Err(IllegalMove(move_number_of(idx), move_san, "Invalid move notation"))
        ELSE LET chess_move == San_to_move(san.val, position)
             IN  IF ~chess_move.ok THEN Ok(position)
                 ELSE Position_play(position, chess_move.val)

\* The body of the for loop for the token move_san at index idx, played in
\* `position`: Ok(the position after it), or the error the `?` returns.
replay_token(position, idx, move_san) ==
    LET move_number == move_number_of(idx)
        san         == San_parse(move_san)
    IN  IF ~san.ok
        THEN Err(IllegalMove(move_number, move_san, "Invalid move notation"))
        ELSE
        LET chess_move == San_to_move(san.val, position)
        IN  IF ~chess_move.ok
            THEN Err(IllegalMove(move_number, move_san,
                                 "Move is not legal in this position"))
            ELSE
            LET played == Position_play(position, chess_move.val)
            IN  IF ~played.ok
                THEN Err(IllegalMove(move_number, move_san,
                                     "Move leaves king in check"))
                ELSE played

\* Mutant: the headers rebuilt from the two required ones.
ValidatedGame_players_only(parsed, validated_moves, position) ==
    [headers   |-> [PgnHeaders_default EXCEPT !.white = parsed.headers.white,
                                              !.black = parsed.headers.black],
     moves     |-> validated_moves,
     final_fen |-> Fen_from_position(position),
     ply_count |-> Len(parsed.moves),
     is_valid  |-> TRUE]

\* Mutant: ply_count copied from the ParsedGame, where it is still 0.
ValidatedGame_stale(parsed, validated_moves, position) ==
    [headers   |-> parsed.headers,
     moves     |-> validated_moves,
     final_fen |-> Fen_from_position(position),
     ply_count |-> parsed.ply_count,
     is_valid  |-> TRUE]

\* struct ValidatedGame as validate_game builds it after the loop
ValidatedGame(parsed, validated_moves, position) ==
    [headers   |-> parsed.headers,
     moves     |-> validated_moves,
     final_fen |-> Fen_from_position(position),
     ply_count |-> Len(parsed.moves),
     is_valid  |-> TRUE]

(***************************************************************************)
(* GameService (service/src/games.rs): the pagination cursor.  A String is *)
(* the sequence of its UTF-8 bytes; the cursor, which is base64 text, is a *)
(* sequence of characters.  A timestamp is its whole microseconds and the  *)
(* nanoseconds beyond them; a Uuid is its 32 hexadecimal digits.           *)
(***************************************************************************)
\* base64::alphabet::URL_SAFE
URL_SAFE == UpperSeq \o LowerSeq \o DigitSeq \o <<"-", "_">>

\* URL_SAFE_NO_PAD.encode : three bytes to four characters, the last group
\* of one or two bytes to two or three characters, no padding.
RECURSIVE URL_SAFE_NO_PAD_encode(_)
URL_SAFE_NO_PAD_encode(bytes) ==
    LET n  == Len(bytes)
        b1 == bytes[1]
        b2 == bytes[2]
        b3 == bytes[3]
    IN  IF n = 0 THEN <<>>
        ELSE IF n = 1
        THEN <<URL_SAFE[(b1 \div 4) + 1], URL_SAFE[((b1 % 4) * 16) + 1]>>
        ELSE IF n = 2
        THEN <<URL_SAFE[(b1 \div 4) + 1],
               URL_SAFE[((b1 % 4) * 16) + (b2 \div 16) + 1],
               URL_SAFE[((b2 % 16) * 4) + 1]>>
        ELSE <<URL_SAFE[(b1 \div 4) + 1],
               URL_SAFE[((b1 % 4) * 16) + (b2 \div 16) + 1],
               URL_SAFE[((b2 % 16) * 4) + (b3 \div 64) + 1],
               URL_SAFE[(b3 % 64) + 1]>>
             \o URL_SAFE_NO_PAD_encode(SubSeq(bytes, 4, n))

\* The bytes that the six-bit values v stand for.
RECURSIVE sextets_to_bytes(_)
sextets_to_bytes(v) ==
    LET n == Len(v)
    IN  IF n < 2 THEN <<>>
        ELSE IF n = 2 THEN <<(v[1] * 4) + (v[2] \div 16)>>
        ELSE IF n = 3 THEN <<(v[1] * 4) + (v[2] \div 16),
                             ((v[2] % 16) * 16) + (v[3] \div 4)>>
        ELSE <<(v[1] * 4) + (v[2] \div 16),
               ((v[2] % 16) * 16) + (v[3] \div 4),
               ((v[3] % 4) * 64) + v[4]>>
             \o sextets_to_bytes(SubSeq(v, 5, n))

\* URL_SAFE_NO_PAD.decode : an error for a character outside the alphabet
\* (the padding character too), for a lone last character and for a last
\* character with bits set beyond the last byte.
URL_SAFE_NO_PAD_decode(text) ==
    LET n == Len(text)
        v == [i \in 1..n |-> (CHOOSE k \in 1..64 : URL_SAFE[k] = text[i]) - 1]
    IN  IF \E i \in 1..n : text[i] \notin Range(URL_SAFE) THEN Err("Invalid base64")
        ELSE IF n % 4 = 1 THEN Err("Invalid base64")
        ELSE IF n % 4 = 2 /\ v[n] % 16 # 0 THEN Err("Invalid base64")
        ELSE IF n % 4 = 3 /\ v[n] % 4 # 0 THEN Err("Invalid base64")
        ELSE Ok(sextets_to_bytes(v))

\* The bytes from index i on are well-formed UTF-8.
RECURSIVE utf8_from(_, _)
utf8_from(bytes, i) ==
    LET n       == Len(bytes)
        b       == bytes[i]
        cont(j) == j <= n /\ bytes[j] \in 128..191
    IN  IF i > n THEN TRUE
        ELSE IF b < 128 THEN utf8_from(bytes, i + 1)
        ELSE IF b \in 194..223 THEN cont(i + 1) /\ utf8_from(bytes, i + 2)
        ELSE IF b \in 224..239
        THEN /\ cont(i + 1) /\ cont(i + 2)
             /\ b = 224 => bytes[i + 1] >= 160
             /\ b = 237 => bytes[i + 1] <= 159
             /\ utf8_from(bytes, i + 3)
        ELSE IF b \in 240..244
        THEN /\ cont(i + 1) /\ cont(i + 2) /\ cont(i + 3)
             /\ b = 240 => bytes[i + 1] >= 144
             /\ b = 244 => bytes[i + 1] <= 143
             /\ utf8_from(bytes, i + 4)
        ELSE FALSE

\* String::from_utf8
String_from_utf8(bytes) ==
    IF utf8_from(bytes, 1) THEN Ok(bytes) ELSE Err("Invalid utf8")

\* i64 as format!("{}") writes it
i64_to_string(n) ==
    LET ds   == Decimal(IF n < 0 THEN -n ELSE n)
        body == [k \in 1..Len(ds) |-> 47 + (CHOOSE j \in 1..10 : DigitSeq[j] = ds[k])]
    IN  IF n < 0 THEN <<45>> \o body ELSE body

\* The number a string of decimal digits stands for.
RECURSIVE digits_value(_)
digits_value(ds) ==
    IF ds = <<>> THEN 0
    ELSE (digits_value(SubSeq(ds, 1, Len(ds) - 1)) * 10) + (ds[Len(ds)] - 48)

\* str::parse::<i64> : an optional sign, then one or more decimal digits.
\* (The strings of the model have at most nine digits: none overflows.)
i64_parse(bytes) ==
    LET signed == bytes # <<>> /\ bytes[1] \in {43, 45}
        ds     == IF signed THEN Tail(bytes) ELSE bytes
    IN  IF ds = <<>> \/ \E k \in 1..Len(ds) : ds[k] \notin 48..57
        THEN Err("Invalid timestamp")
        ELSE Ok(IF signed /\ bytes[1] = 45 THEN -digits_value(ds) ELSE digits_value(ds))

\* Uuid::to_string : lower-case hexadecimal digits in groups of 8-4-4-4-12
Uuid_to_string(id) ==
    LET hex(a, b) == [k \in 1..(b - a + 1) |->
                         IF id[a + k - 1] < 10 THEN 48 + id[a + k - 1]
                         ELSE 87 + id[a + k - 1]]
    IN  hex(1, 8) \o <<45>> \o hex(9, 12) \o <<45>> \o hex(13, 16) \o <<45>>
        \o hex(17, 20) \o <<45>> \o hex(21, 32)

\* Uuid::parse_str on the hyphenated form and on the form without hyphens,
\* hexadecimal digits in either case.  (The URN and braced forms it also
\* reads are not among the strings of the model.)
Uuid_parse_str(bytes) ==
    LET hyphenated == Len(bytes) = 36 /\ \A k \in {9, 14, 19, 24} : bytes[k] = 45
        simple     == IF hyphenated
                      THEN SubSeq(bytes, 1, 8) \o SubSeq(bytes, 10, 13)
                           \o SubSeq(bytes, 15, 18) \o SubSeq(bytes, 20, 23)
                           \o SubSeq(bytes, 25, 36)
                      ELSE bytes
        digit(b)   == IF b \in 48..57 THEN b - 48
                      ELSE IF b \in 97..102 THEN b - 87
                      ELSE b - 55
    IN  IF /\ Len(simple) = 32
           /\ \A k \in 1..32 : simple[k] \in (48..57) \cup (97..102) \cup (65..70)
        THEN Ok([k \in 1..32 |-> digit(simple[k])])
        ELSE Err("Invalid UUID")

\* Mutant: the timestamp written in whole seconds.
encode_cursor_seconds(timestamp, id) ==
    URL_SAFE_NO_PAD_encode(
        i64_to_string(IF timestamp.micros >= 0 THEN timestamp.micros \div 1000000
                      ELSE -((-timestamp.micros) \div 1000000))
        \o <<44>> \o Uuid_to_string(id))

\* fn encode_cursor(timestamp, id) -> String
encode_cursor(timestamp, id) ==
    URL_SAFE_NO_PAD_encode(
        i64_to_string(timestamp.micros) \o <<44>> \o Uuid_to_string(id))

\* fn decode_cursor(cursor) -> Result<(DateTime<Utc>, Uuid), String>
decode_cursor(cursor) ==
    LET decoded_bytes == URL_SAFE_NO_PAD_decode(cursor)
    IN  IF ~decoded_bytes.ok THEN decoded_bytes
        ELSE
        LET raw == String_from_utf8(decoded_bytes.val)
        IN  IF ~raw.ok THEN raw
            ELSE
            LET commas == {k \in 1..Len(raw.val) : raw.val[k] = 44}
            IN  IF commas = {} THEN Err("Invalid cursor format")
                ELSE
                LET c         == MinOf(commas)
                    ts_micros == i64_parse(SubSeq(raw.val, 1, c - 1))
                    id        == Uuid_parse_str(SubSeq(raw.val, c + 1, Len(raw.val)))
                IN  IF ~ts_micros.ok THEN ts_micros
                    ELSE IF ~id.ok THEN id
                    ELSE Ok([timestamp |-> [micros |-> ts_micros.val, nanos |-> 0],
                             id        |-> id.val])

(***************************************************************************)
(* GameService::list_games over the rows of the game table.  A row holds   *)
(* its id (the primary key), created_at (timestamptz: microseconds, never  *)
(* NULL), the two players and the result, which is NULL while the game is  *)
(* active.  The database answers every query.                              *)
(***************************************************************************)

\* uuid < uuid in the database: byte by byte from the left.
Uuid_lt(a, b) ==
    \E k \in 1..32 : a[k] < b[k] /\ \A j \in 1..(k - 1) : a[j] = b[j]

\* 1. Apply Filtering, lines 36-60
matches_filters(g, player_id, status) ==
    /\ player_id # None =>
           g.white_player = player_id[1] \/ g.black_player = player_id[1]
    /\ status # None =>
           IF status[1] \in {"Waiting", "InProgress"}
           THEN g.result = None
           ELSE g.result # None

after_cursor_by_time(g, last_created_at, last_id) ==
    g.created_at.micros < last_created_at.micros

\* created_at < last_created_at OR (created_at = last_created_at AND
\* id < last_id), lines 92-98
after_cursor(g, last_created_at, last_id) ==
    \/ g.created_at.micros < last_created_at.micros
    \/ /\ g.created_at.micros = last_created_at.micros
       /\ Uuid_lt(g.id, last_id)

\* ORDER BY created_at DESC, id DESC, lines 64-66
RECURSIVE order_desc(_)
order_desc(rows) ==
    IF rows = {} THEN <<>>
    ELSE LET first == CHOOSE g \in rows :
                          \A h \in rows \ {g} :
                              \/ g.created_at.micros > h.created_at.micros
                              \/ /\ g.created_at.micros = h.created_at.micros
                                 /\ Uuid_lt(h.id, g.id)
         IN  <<first>> \o order_desc(rows \ {first})

list_games_exact(table, cursor, limit, player_id, status) ==
    LET filtered == {g \in table : matches_filters(g, player_id, status)}
        last     == IF cursor = None THEN Err("") ELSE decode_cursor(cursor[1])
        kept     == IF last.ok
                    THEN {g \in filtered :
                             after_cursor(g, last.val.timestamp, last.val.id)}
                    ELSE filtered
        ordered  == order_desc(kept)
        results  == SubSeq(ordered, 1, IF Len(ordered) < limit
                                       THEN Len(ordered) ELSE limit)
    IN  Ok([games |-> results, next_cursor |-> None])

list_games_strict(table, cursor, limit, player_id, status) ==
    LET filtered == {g \in table : matches_filters(g, player_id, status)}
        last     == IF cursor = None THEN Err("") ELSE decode_cursor(cursor[1])
        kept     == IF last.ok
                    THEN {g \in filtered :
                             after_cursor(g, last.val.timestamp, last.val.id)}
                    ELSE IF cursor = None THEN filtered ELSE {}
        ordered  == order_desc(kept)
        results  == SubSeq(ordered, 1, IF Len(ordered) < limit + 1
                                       THEN Len(ordered) ELSE limit + 1)
    IN  IF Len(results) > limit
        THEN LET games == SubSeq(results, 1, limit)
             IN  Ok([games |-> games,
                     next_cursor |->
                         IF games # <<>>
                         THEN Some(encode_cursor(games[Len(games)].created_at,
                                                 games[Len(games)].id))
                         ELSE None])
        ELSE Ok([games |-> results, next_cursor |-> None])

\* GameService::list_games, lines 26-120: the filters, the order, the
\* cursor's condition when the cursor decodes, limit + 1 rows fetched, the
\* page cut to limit rows and the cursor of its last row.
list_games(table, cursor, limit, player_id, status) ==
    LET filtered == {g \in table : matches_filters(g, player_id, status)}
        last     == IF cursor = None THEN Err("") ELSE decode_cursor(cursor[1])
        kept     == IF last.ok
                    THEN {g \in filtered :
                             after_cursor(g, last.val.timestamp, last.val.id)}
                    ELSE filtered
        ordered  == order_desc(kept)
        results  == SubSeq(ordered, 1, IF Len(ordered) < limit + 1
                                       THEN Len(ordered) ELSE limit + 1)
    IN  IF Len(results) > limit
        THEN LET games == SubSeq(results, 1, limit)
             IN  Ok([games |-> games,
                     next_cursor |->
                         IF games # <<>>
                         THEN Some(encode_cursor(games[Len(games)].created_at,
                                                 games[Len(games)].id))
                         ELSE None])
        ELSE Ok([games |-> results, next_cursor |-> None])

(***************************************************************************)
(* EngineService::get_suggestion.  The engine is a process outside the     *)
(* service: each of its steps either succeeds or fails with an             *)
(* EngineError, and go returns whatever the engine found.                  *)
(***************************************************************************)

\* The steps of get_suggestion in the order of lines 23-34, and the place
\* after the last of them, "return".
EngineSteps == <<"new", "is_ready", "set_position", "go", "quit">>

step_index(command) == CHOOSE k \in 1..5 : EngineSteps[k] = command

\* Where a call stands after the step `command` succeeded.
after_success(command) ==
    IF command = "quit" THEN "return"
    ELSE EngineSteps[step_index(command) + 1]

after_failure_quit(command) ==
    IF command \in {"is_ready", "set_position", "go"} THEN "quit" ELSE "return"

\* Where a call stands after the step `command` failed: the `?` of lines
\* 23, 24, 25, 33 and 34 returns the error.
after_failure(command) == "return"

\* The arguments of a step: the fen of set_position (line 25), the
\* GoParams of go (lines 27-31).
step_arguments(command, req) ==
    IF command = "set_position" THEN <<req.fen>>
    ELSE IF command = "go"
         THEN <<[depth |-> req.depth, time_limit_ms |-> req.time_limit_ms,
                 search_moves |-> None]>>
         ELSE <<>>

(***************************************************************************)
(* The inputs of the model.                                                *)
(***************************************************************************)
\* The longest tag block, move text (in words) and blank text of Init.
MaxTags  == 3
MaxWords == 3
MaxBlank == 3
\* The longest token sequence handed to validate_game directly.
MaxPly   == 4

SeqsUpTo(S, n) == UNION {[1..k -> S] : k \in 0..n}

RECURSIVE Concat(_)
Concat(ss) == IF ss = <<>> THEN <<>> ELSE Head(ss) \o Concat(Tail(ss))

Tok_e4   == <<"e","4">>
Tok_e5   == <<"e","5">>
Tok_d6   == <<"d","6">>
Tok_Nf3  == <<"N","f","3">>
Tok_Nc6  == <<"N","c","6">>
Tok_Bb5  == <<"B","b","5">>
Tok_Ke3  == <<"K","e","3">>
Tok_1e4  == <<"1",".","e","4">>

\* The SAN tokens of the tests and of the spec's examples, a pinned pawn
\* move (d6 after Bb5) and a token that is no SAN.
SanVocab == {Tok_e4, Tok_e5, Tok_d6, Tok_Nf3, Tok_Bb5, Tok_Ke3, Tok_1e4}

Tag(key, value) == [key |-> key, value |-> value]

Str_Result == <<"R","e","s","u","l","t">>
Str_Event  == <<"E","v","e","n","t">>

\* The tags of the tests and of the spec's examples, with the Result
\* values the header parser tells apart.
TagVocab ==
    {Tag(Str_White, <<"A">>), Tag(Str_Black, <<"B">>), Tag(Str_White, <<>>),
     Tag(Str_Result, <<" ","*"," ">>), Tag(Str_Result, <<"x">>),
     Tag(Str_Result, <<" ">>), Tag(Str_Result, <<>>),
     Tag(Str_Event, <<"E">>), Tag(<<"B","L","A","C","K">>, <<"b">>)}

\* [Key "Value"] and a line end, as the tests write a tag
RenderTag(t) == <<"[">> \o t.key \o <<" ", "\"">> \o t.value \o <<"\"", "]", "\n">>

Word_comment == <<"{","c","}">>
Word_nag     == <<"$","1">>

\* The words of move text that are no move: move numbers, results, a
\* brace comment and a NAG.
NoiseVocab ==
    {<<"1",".">>, <<"2",".">>, <<"3",".">>, <<"1",".",".",".">>,
     Str_1_0, Str_star, Word_comment, Word_nag}

\* The words Init writes move text from.
WordVocab ==
    {Tok_e4, Tok_e5, Tok_Nf3, Tok_Ke3, Tok_1e4,
     <<"1",".">>, <<"1",".",".",".">>, Str_1_0, Word_comment, Word_nag}

RenderWord(w) == w \o <<" ">>

\* A PGN text: the tags, one per line, then the words of the move text.
Render(tags, words) ==
    Concat([i \in 1..Len(tags) |-> RenderTag(tags[i])])
    \o Concat([i \in 1..Len(words) |-> RenderWord(words[i])])

GoodTags == <<Tag(Str_White, <<"A">>), Tag(Str_Black, <<"B">>)>>

\* The games of the tests and of the spec's examples.
SampleWords ==
    {<<<<"1",".">>, Tok_e4, Tok_e5, <<"2",".">>, Tok_Nf3, Tok_Nc6, <<"3",".">>, Tok_Bb5, Str_1_0>>,
     <<<<"1",".">>, Tok_e4, Tok_e5, <<"2",".">>, Tok_Ke3, Str_star>>,
     <<Tok_e4, Tok_e5, Tok_Bb5, Tok_d6>>}

\* What Init draws from: (tags, words) pairs, rich in tags or rich in words.
Sources ==
    (SeqsUpTo(TagVocab, MaxTags) \X {<<>>, <<Tok_e4, Tok_e5>>})
    \cup ({GoodTags} \X (SeqsUpTo(WordVocab, MaxWords) \cup SampleWords))

BlankTexts == SeqsUpTo({" ", "\n"}, MaxBlank)

\* What is inserted between two moves: brace comments (plain, and holding
\* a semicolon, a NAG, a parenthesis, a bracketed tag) and a NAG.
AnnotationVocab ==
    {Word_comment, Word_nag,
     <<"{",";","}">>, <<"{","$","1","}">>, <<"{","(","}">>,
     <<"{","[","a"," ","\"","b","\"","]","}">>}

\* The texts that get annotated: with or without a Result tag, the move
\* text written from moves and a move number.
AnnotatedSources ==
    {GoodTags, Append(GoodTags, Tag(Str_Result, Str_1_0))}
    \X SeqsUpTo({Tok_e4, Tok_e5, Tok_Nf3, <<"1",".">>}, MaxWords)

(***************************************************************************)
(* The import as a state machine: parse_pgn, then validate_game.           *)
(***************************************************************************)
VARIABLES
    src,              \* the tags and words pgn_string was written from
    pgn_string,       \* the argument of parse_pgn
    pc,               \* where the import stands
    pgn,              \* parse_pgn: the trimmed text
    hdr,              \* parse_pgn: (headers, move_text) of parse_headers
    parsed,           \* the ParsedGame handed to validate_game
    position,         \* validate_game: the position
    idx,              \* validate_game: the loop index
    validated_moves,  \* validate_game: the moves pushed so far
    examined,         \* the indices of the tokens the loop has looked at
    result,           \* what the import returned
    base,             \* what the import of the text returned before it
                      \* was annotated
    other,            \* the arguments, locals and return of an import that
                      \* runs in parallel with this one, while it is not
                      \* the one taking a step
    result_str,       \* GameResult: the &str handed to from_pgn_string
    outcome,          \* GameResult: what from_pgn_string returned
    hops,             \* GameResult: the conversions made so far
    origin,           \* GameResult: what the conversions started from
    cursor_ts,        \* cursor: the timestamp handed to encode_cursor
    cursor_id,        \* cursor: the id handed to encode_cursor
    cursor_str,       \* cursor: what encode_cursor returned
    decoded,          \* cursor: what decode_cursor returned
    games_table,      \* list_games: the rows of the game table
    page_limit,       \* list_games: the argument limit
    player_filter,    \* list_games: the argument player_id
    status_filter,    \* list_games: the argument status
    page_cursor,      \* list_games: the argument cursor of the next call
    asked,            \* list_games: the argument cursor of every call made
    page,             \* list_games: what the last call returned
    listed,           \* list_games: the games the calls returned so far
    request,          \* get_suggestion: the arguments
    engines,          \* get_suggestion: the engines started so far
    issued,           \* get_suggestion: every step taken on an engine, with
                      \* the call, the engine, the arguments and the outcome
    search,           \* get_suggestion: the local result, what go returned
    suggestion        \* get_suggestion: what each call returned

\* The variables of the import but pc, and those of the other services.
import  == <<src, pgn_string, pgn, hdr, parsed, position, idx,
             validated_moves, examined, result, base, other>>
outcome_vars == <<result_str, outcome, hops, origin>>
cursor_vars  == <<cursor_ts, cursor_id, cursor_str, decoded>>
listing_vars == <<games_table, page_limit, player_filter, status_filter,
                  page_cursor, asked, page, listed>>
engine_vars  == <<request, engines, issued, search, suggestion>>
service == <<outcome_vars, cursor_vars, listing_vars, engine_vars>>

vars == <<import, pc, service>>

NoSrc    == [tags |-> <<>>, words |-> <<>>]
NoHdr    == [headers |-> PgnHeaders_default, move_text |-> <<>>]
NoResult == Err(PgnError("", <<>>, 0, ""))

\* A call's arguments, locals and return value as one record; `overlapped`
\* records that both imports have been inside their calls at once.
Call(s, text, at, p, h, g, pos, i, pushed, seen, r, over) ==
    [src |-> s, pgn_string |-> text, pc |-> at, pgn |-> p, hdr |-> h,
     parsed |-> g, position |-> pos, idx |-> i, validated_moves |-> pushed,
     examined |-> seen, result |-> r, overlapped |-> over]

\* An import about to call parse_pgn on the text written from s.
NewCall(s) ==
    Call([tags |-> s[1], words |-> s[2]], Render(s[1], s[2]), "parse_pgn",
         <<>>, NoHdr, ParsedGame(PgnHeaders_default, <<>>), Chess_default, 0,
         <<>>, {}, NoResult, FALSE)

\* No import runs in parallel.
NoOther ==
    Call(NoSrc, <<>>, "done", <<>>, NoHdr, ParsedGame(PgnHeaders_default, <<>>),
         Chess_default, 0, <<>>, {}, NoResult, FALSE)

NoOutcome == Err(PgnError("", <<>>, 0, ""))

\* No conversion of a GameResult is under way.
OutcomeIdle ==
    /\ result_str = <<>>
    /\ outcome = NoOutcome
    /\ hops = 0
    /\ origin = [from |-> "", s |-> <<>>, r |-> ""]

NoTimestamp == [micros |-> 0, nanos |-> 0]
NoDecoded   == Err("")

\* No cursor is being encoded or decoded.
CursorIdle ==
    /\ cursor_ts = NoTimestamp
    /\ cursor_id = <<>>
    /\ cursor_str = <<>>
    /\ decoded = NoDecoded

NoPage == Err("")

\* No listing is under way.
ListingIdle ==
    /\ games_table = {}
    /\ page_limit = 0
    /\ player_filter = None
    /\ status_filter = None
    /\ page_cursor = None
    /\ asked = <<>>
    /\ page = NoPage
    /\ listed = <<>>

NoRequest == [fen |-> "", depth |-> None, time_limit_ms |-> None]

\* No suggestion is being computed.
EngineIdle ==
    /\ request = NoRequest
    /\ engines = 0
    /\ issued = <<>>
    /\ search = None
    /\ suggestion = <<>>

ServiceIdle == OutcomeIdle /\ CursorIdle /\ ListingIdle /\ EngineIdle

Locals0 ==
    /\ ServiceIdle
    /\ other = NoOther
    /\ pgn = <<>>
    /\ hdr = NoHdr
    /\ position = Chess_default
    /\ idx = 0
    /\ validated_moves = <<>>
    /\ examined = {}
    /\ result = NoResult
    /\ base = NoResult

\* An import about to call parse_pgn on a text.
Init ==
    /\ \/ \E s \in Sources :
              /\ src = [tags |-> s[1], words |-> s[2]]
              /\ pgn_string = Render(s[1], s[2])
       \/ /\ src = NoSrc
          /\ pgn_string \in BlankTexts
    /\ pc = "parse_pgn"
    /\ parsed = ParsedGame(PgnHeaders_default, <<>>)
    /\ Locals0

\* parse_pgn, lines 191-195: trim, and the empty check
ParsePgn ==
    /\ pc = "parse_pgn"
    /\ pgn' = trim(pgn_string)
    /\ IF pgn' = <<>>
       THEN /\ result' = Err(PgnError("EmptyPgn", <<>>, 0, ""))
            /\ pc' = "done"
       ELSE /\ result' = result
            /\ pc' = "parse_headers"
    /\ UNCHANGED <<service, other, base, src, pgn_string, hdr, parsed, position, idx,
                   validated_moves, examined>>

\* parse_pgn, line 197: parse_headers(pgn)?
ParseHeaders ==
    /\ pc = "parse_headers"
    /\ LET r == parse_headers(pgn)
       IN  IF r.ok
           THEN /\ hdr' = r.val
                /\ result' = result
                /\ pc' = "parse_moves"
           ELSE /\ hdr' = hdr
                /\ result' = r
                /\ pc' = "done"
    /\ UNCHANGED <<service, other, base, src, pgn_string, pgn, parsed, position, idx,
                   validated_moves, examined>>

\* parse_pgn, lines 198-205: parse_moves(move_text) and the ParsedGame
ParseMoves ==
    /\ pc = "parse_moves"
    /\ parsed' = ParsedGame(hdr.headers, parse_moves(hdr.move_text))
    /\ pc' = "validate_game"
    /\ UNCHANGED <<service, other, base, src, pgn_string, pgn, hdr, position, idx,
                   validated_moves, examined, result>>

\* Mutant: the position is kept from one call to the next.
ValidateBegin_reuse ==
    /\ pc = "validate_game"
    /\ validated_moves' = <<>>
    /\ idx' = 0
    /\ pc' = "replay"
    /\ UNCHANGED <<service, other, base, src, pgn_string, pgn, hdr, parsed, examined, result,
                   position>>

\* validate_game, lines 210-211: the fresh position and the empty Vec
ValidateBegin ==
    /\ pc = "validate_game"
    /\ position' = Chess_default
    /\ validated_moves' = <<>>
    /\ idx' = 0
    /\ pc' = "replay"
    /\ UNCHANGED <<service, other, base, src, pgn_string, pgn, hdr, parsed, examined, result>>

\* Mutant: a failing token is dropped and the loop goes on.
ReplayToken_skip ==
    /\ pc = "replay"
    /\ idx < Len(parsed.moves)
    /\ LET move_san == parsed.moves[idx + 1]
           r        == replay_token(position, idx, move_san)
       IN  /\ examined' = examined \cup {idx}
           /\ idx' = idx + 1
           /\ position' = IF r.ok THEN r.val ELSE position
           /\ validated_moves' = IF r.ok THEN Append(validated_moves, move_san)
                                  ELSE validated_moves
    /\ UNCHANGED <<service, other, base, src, pgn_string, pgn, hdr, parsed, result, pc>>

\* validate_game, lines 213-237: one iteration of the for loop
ReplayToken ==
    /\ pc = "replay"
    /\ idx < Len(parsed.moves)
    /\ LET move_san == parsed.moves[idx + 1]
           r        == replay_token(position, idx, move_san)
       IN  /\ examined' = examined \cup {idx}
           /\ IF r.ok
              THEN /\ position' = r.val
                   /\ validated_moves' = Append(validated_moves, move_san)
                   /\ idx' = idx + 1
                   /\ UNCHANGED <<result, pc>>
              ELSE /\ result' = r
                   /\ pc' = "done"
                   /\ UNCHANGED <<position, validated_moves, idx>>
    /\ UNCHANGED <<service, other, base, src, pgn_string, pgn, hdr, parsed>>

\* validate_game, lines 239-249: the final FEN and the ValidatedGame
ValidateReturn ==
    /\ pc = "replay"
    /\ idx = Len(parsed.moves)
    /\ result' = Ok(ValidatedGame(parsed, validated_moves, position))
    /\ pc' = "done"
    /\ UNCHANGED <<service, other, base, src, pgn_string, pgn, hdr, parsed, position, idx,
                   validated_moves, examined>>

Next ==
    \/ ParsePgn
    \/ ParseHeaders
    \/ ParseMoves
    \/ ValidateBegin
    \/ ReplayToken
    \/ ValidateReturn

Spec == Init /\ [][Next]_vars

InCall(at) == at \notin {"parse_pgn", "done"}

\* Mutant: the position is one object that every call uses.
Switch_shared_position ==
    /\ other.pc # "done" \/ pc # "done"
    /\ other' = Call(src, pgn_string, pc, pgn, hdr, parsed, other.position, idx,
                     validated_moves, examined, result,
                     other.overlapped \/ (InCall(pc) /\ InCall(other.pc)))
    /\ src' = other.src
    /\ pgn_string' = other.pgn_string
    /\ pc' = other.pc
    /\ pgn' = other.pgn
    /\ hdr' = other.hdr
    /\ parsed' = other.parsed
    /\ position' = position
    /\ idx' = other.idx
    /\ validated_moves' = other.validated_moves
    /\ examined' = other.examined
    /\ result' = other.result
    /\ UNCHANGED <<service, base>>

\* The import that runs in parallel takes the next step: each call's
\* arguments, locals (the position of line 210 among them) and return value
\* are its own, so this one's are set aside whole and the other's taken up.
Switch ==
    /\ other.pc # "done" \/ pc # "done"
    /\ other' = Call(src, pgn_string, pc, pgn, hdr, parsed, position, idx,
                     validated_moves, examined, result,
                     other.overlapped \/ (InCall(pc) /\ InCall(other.pc)))
    /\ src' = other.src
    /\ pgn_string' = other.pgn_string
    /\ pc' = other.pc
    /\ pgn' = other.pgn
    /\ hdr' = other.hdr
    /\ parsed' = other.parsed
    /\ position' = other.position
    /\ idx' = other.idx
    /\ validated_moves' = other.validated_moves
    /\ examined' = other.examined
    /\ result' = other.result
    /\ UNCHANGED <<service, base>>

\* The texts two parallel imports are called on: the empty text, one
\* without the Black tag, and games that are accepted or refused at
\* different tokens.
ParallelSources ==
    {<<<<>>, <<>>>>,
     <<<<Tag(Str_White, <<"A">>)>>, <<Tok_e4>>>>,
     <<GoodTags, <<>>>>,
     <<GoodTags, <<<<"1",".">>, Tok_e4, Tok_e5, <<"2",".">>, Tok_Nf3>>>>,
     <<GoodTags, <<Tok_e4, Tok_e5, Tok_Bb5, Tok_d6>>>>,
     <<GoodTags, <<Tok_e4, Tok_1e4>>>>}

\* Two imports about to call parse_pgn, each on its own text.
InitParallel ==
    /\ \E s \in ParallelSources, t \in ParallelSources :
           /\ src = [tags |-> s[1], words |-> s[2]]
           /\ pgn_string = Render(s[1], s[2])
           /\ other = NewCall(t)
    /\ pc = "parse_pgn"
    /\ parsed = ParsedGame(PgnHeaders_default, <<>>)
    /\ pgn = <<>>
    /\ hdr = NoHdr
    /\ position = Chess_default
    /\ idx = 0
    /\ validated_moves = <<>>
    /\ examined = {}
    /\ result = NoResult
    /\ base = NoResult
    /\ ServiceIdle

NextParallel ==
    \/ Next
    \/ Switch

SpecParallel == InitParallel /\ [][NextParallel]_vars

\* An accepted text is imported again with an annotation inserted between
\* two adjacent moves, as test_parse_headers_with_comments writes one.
Annotate ==
    /\ pc = "done"
    /\ base = NoResult
    /\ result.ok
    /\ \E k \in 1..(Len(src.words) - 1), a \in AnnotationVocab :
           /\ src.words[k] \notin NoiseVocab
           /\ src.words[k + 1] \notin NoiseVocab
           /\ LET words == SubSeq(src.words, 1, k) \o <<a>>
                           \o SubSeq(src.words, k + 1, Len(src.words))
              IN  /\ src' = [src EXCEPT !.words = words]
                  /\ pgn_string' = Render(src.tags, words)
    /\ base' = result
    /\ pc' = "parse_pgn"
    /\ parsed' = ParsedGame(PgnHeaders_default, <<>>)
    /\ pgn' = <<>>
    /\ hdr' = NoHdr
    /\ position' = Chess_default
    /\ idx' = 0
    /\ validated_moves' = <<>>
    /\ examined' = {}
    /\ result' = NoResult
    /\ UNCHANGED <<service, other>>

InitAnnotate ==
    /\ \E s \in AnnotatedSources :
           /\ src = [tags |-> s[1], words |-> s[2]]
           /\ pgn_string = Render(s[1], s[2])
    /\ pc = "parse_pgn"
    /\ parsed = ParsedGame(PgnHeaders_default, <<>>)
    /\ Locals0

NextAnnotate ==
    \/ Next
    \/ Annotate

SpecAnnotate == InitAnnotate /\ [][NextAnnotate]_vars

\* Bracketed tag text written in the move text, after a move.
LateTagVocab ==
    {<<"[","a"," ","\"","b","\"","]">>,
     <<"[","W","h","i","t","e"," ","\"","X","\"","]">>}

\* Texts with a header block and, in the move text, moves, a move number
\* and bracketed tag text.
LateTagSources ==
    {GoodTags, Append(GoodTags, Tag(Str_Result, Str_1_0))}
    \X SeqsUpTo({Tok_e4, Tok_e5, <<"1",".">>} \cup LateTagVocab, MaxWords)

InitLateTag ==
    /\ \E s \in LateTagSources :
           /\ src = [tags |-> s[1], words |-> s[2]]
           /\ pgn_string = Render(s[1], s[2])
    /\ pc = "parse_pgn"
    /\ parsed = ParsedGame(PgnHeaders_default, <<>>)
    /\ Locals0

SpecLateTag == InitLateTag /\ [][Next]_vars

\* Tags of every recognised key, in more than one letter case and with
\* more than one value, and tags of keys that are not recognised.
HeaderVocab ==
    {Tag(<<"W","H","I","T","E">>, <<"C">>), Tag(<<"b","l","a","c","k">>, <<"D">>),
     Tag(Str_Event, <<"E">>), Tag(<<"E","V","E","N","T">>, <<"F">>),
     Tag(<<"S","i","t","e">>, <<"S">>), Tag(<<"D","A","T","E">>, <<"T">>),
     Tag(<<"r","o","u","n","d">>, <<"R">>),
     Tag(Str_Result, Str_1_0), Tag(<<"R","E","S","U","L","T">>, Str_0_1),
     Tag(<<"a">>, <<"b">>), Tag(<<"a">>, <<"c">>), Tag(<<"A">>, <<"d">>)}

\* Header blocks: the White and Black tags, then any tags; and a move.
HeaderSources ==
    {GoodTags \o t : t \in SeqsUpTo(HeaderVocab, MaxTags)} \X {<<Tok_e4>>}

InitHeaders ==
    /\ \E s \in HeaderSources :
           /\ src = [tags |-> s[1], words |-> s[2]]
           /\ pgn_string = Render(s[1], s[2])
    /\ pc = "parse_pgn"
    /\ parsed = ParsedGame(PgnHeaders_default, <<>>)
    /\ Locals0

\* parse_pgn alone
NextHeaders ==
    \/ ParsePgn
    \/ ParseHeaders
    \/ ParseMoves

SpecHeaders == InitHeaders /\ [][NextHeaders]_vars

\* Side variations as words of the move text: (d5), (d5 Nf3), one holding
\* a comment with a closing parenthesis and a NAG, one written between two
\* moves without a space, and two nested ones.
Var_one     == <<"(","d","5",")">>
Var_two     == <<"(","d","5"," ","N","f","3",")">>
Var_noted   == <<"("," ","d","5"," ","{",")","}"," ","$","1"," ",")">>
Var_glued   == <<"e","4","(","d","4",")","e","5">>
Var_nested  == <<"(","e","5"," ","(","d","5",")"," ","N","f","3",")">>
Var_spaced  == <<"("," ","e","5"," ","("," ","d","5"," ",")"," ","N","f","3"," ",")">>

FlatVariations   == {Var_one, Var_two, Var_noted, Var_glued}
NestedVariations == {Var_nested, Var_spaced}

VariationSources ==
    {GoodTags}
    \X SeqsUpTo({Tok_e4, Tok_e5} \cup FlatVariations \cup NestedVariations, MaxWords)

InitVariations ==
    /\ \E s \in VariationSources :
           /\ src = [tags |-> s[1], words |-> s[2]]
           /\ pgn_string = Render(s[1], s[2])
    /\ pc = "parse_pgn"
    /\ parsed = ParsedGame(PgnHeaders_default, <<>>)
    /\ Locals0

SpecVariations == InitVariations /\ [][Next]_vars

\* Comments as words of the move text: a brace comment and a rest-of-line
\* comment between two moves without whitespace, a brace comment holding a
\* semicolon (alone, and between two moves), a rest-of-line comment, and a
\* rest-of-line comment holding an opening brace that is closed on the
\* next line, after a move.
Com_brace_glued == <<"e","4","{","c","}","e","5">>
Com_semi_glued  == <<"e","4",";","c","\n","e","5">>
Com_brace_semi  == <<"{","a",";","b","}">>
Com_both_glued  == <<"e","4","{",";","}","e","5">>
Com_semi        == <<";","c","\n">>
Com_semi_brace  == <<";","n","{","\n","e","5","}","\n">>

CommentSources ==
    {GoodTags}
    \X SeqsUpTo({Tok_e4, Tok_e5, Tok_Nf3, Com_brace_glued, Com_semi_glued,
                 Com_brace_semi, Com_both_glued, Com_semi, Com_semi_brace},
                MaxWords)

InitComments ==
    /\ \E s \in CommentSources :
           /\ src = [tags |-> s[1], words |-> s[2]]
           /\ pgn_string = Render(s[1], s[2])
    /\ pc = "parse_pgn"
    /\ parsed = ParsedGame(PgnHeaders_default, <<>>)
    /\ Locals0

SpecComments == InitComments /\ [][Next]_vars

\* validate_game called on any ParsedGame: any token sequence, under the
\* headers of an accepted text.
InitValidate ==
    /\ src = NoSrc
    /\ pgn_string = <<>>
    /\ pc = "validate_game"
    /\ \E moves \in SeqsUpTo(SanVocab, MaxPly) :
           parsed = ParsedGame([PgnHeaders_default EXCEPT !.white = <<"A">>,
                                                          !.black = <<"B">>],
                               moves)
    /\ Locals0

NextValidate ==
    \/ ValidateBegin
    \/ ReplayToken
    \/ ValidateReturn

SpecValidate == InitValidate /\ [][NextValidate]_vars

\* validate_game called once more on the ParsedGame it was called on:
\* what the call before returned is kept in base, and the locals of the
\* call before are dead until lines 210-211 set them anew.
Revalidate ==
    /\ pc = "done"
    /\ base' = result
    /\ result' = NoResult
    /\ examined' = {}
    /\ pc' = "validate_game"
    /\ UNCHANGED <<service, other, src, pgn_string, pgn, hdr, parsed, position,
                   idx, validated_moves>>

\* validate_game called on a ParsedGame, any number of times.
InitRevalidate ==
    /\ src = NoSrc
    /\ pgn_string = <<>>
    /\ pc = "validate_game"
    /\ \E moves \in SeqsUpTo(SanVocab, MaxPly - 1) :
           parsed = ParsedGame([PgnHeaders_default EXCEPT !.white = <<"A">>,
                                                          !.black = <<"B">>],
                               moves)
    /\ Locals0

NextRevalidate ==
    \/ NextValidate
    \/ Revalidate

SpecRevalidate == InitRevalidate /\ [][NextRevalidate]_vars

(***************************************************************************)
(* GameResult: from_pgn_string and to_pgn_string, one applied to what the  *)
(* other returned.                                                         *)
(***************************************************************************)
\* No import is under way.
ImportIdle ==
    /\ src = NoSrc
    /\ pgn_string = <<>>
    /\ parsed = ParsedGame(PgnHeaders_default, <<>>)
    /\ other = NoOther
    /\ pgn = <<>>
    /\ hdr = NoHdr
    /\ position = Chess_default
    /\ idx = 0
    /\ validated_moves = <<>>
    /\ examined = {}
    /\ result = NoResult
    /\ base = NoResult

\* enum GameResult
GameResults == {"WhiteWins", "BlackWins", "Draw", "Ongoing"}

\* The strings from_pgn_string is called on: the four literals and others,
\* bare or with whitespace before and after.
ResultStrings ==
    {b \o t \o a :
        b \in BlankTexts, a \in BlankTexts,
        t \in {Str_1_0, Str_0_1, Str_draw, Str_star, <<>>, <<"x">>,
               <<"1"," ","-","0">>, <<"1","-","0","*">>}}

\* Either a string to decode and encode again, or an outcome to encode
\* and decode again.
InitOutcome ==
    /\ \/ \E s \in ResultStrings :
              /\ origin = [from |-> "string", s |-> s, r |-> ""]
              /\ result_str = s
              /\ outcome = NoOutcome
              /\ pc = "from_pgn_string"
       \/ \E r \in GameResults :
              /\ origin = [from |-> "outcome", s |-> <<>>, r |-> r]
              /\ result_str = <<>>
              /\ outcome = Ok(r)
              /\ pc = "to_pgn_string"
    /\ hops = 0
    /\ ImportIdle
    /\ CursorIdle
    /\ ListingIdle
    /\ EngineIdle

\* GameResult::from_pgn_string(result_str), lines 54-62
FromPgnString ==
    /\ pc = "from_pgn_string"
    /\ outcome' = from_pgn_string(result_str)
    /\ hops' = hops + 1
    /\ pc' = IF outcome'.ok /\ hops = 0 THEN "to_pgn_string" ELSE "done"
    /\ UNCHANGED <<import, cursor_vars, listing_vars, engine_vars,
                   result_str, origin>>

\* outcome.to_pgn_string(), lines 65-72
ToPgnString ==
    /\ pc = "to_pgn_string"
    /\ result_str' = to_pgn_string(outcome.val)
    /\ hops' = hops + 1
    /\ pc' = IF hops = 0 THEN "from_pgn_string" ELSE "done"
    /\ UNCHANGED <<import, cursor_vars, listing_vars, engine_vars,
                   outcome, origin>>

SpecOutcome == InitOutcome /\ [][FromPgnString \/ ToPgnString]_vars

(***************************************************************************)
(* The cursor of the listing, encoded and decoded again.                   *)
(***************************************************************************)

\* A Uuid whose k-th hexadecimal digit is k * n modulo 16.
Uuid_n(n) == [k \in 1..32 |-> (k * n) % 16]

Uuids == {Uuid_n(n) : n \in {0, 1, 7, 8, 15}}

\* DateTime<Utc> values: the microseconds since the epoch, and the
\* nanoseconds below the microsecond.
Timestamps ==
    {[micros |-> m, nanos |-> n] :
        m \in {-1000001, -1, 0, 1, 999999, 1000000, 1234567890},
        n \in {0, 999}}

\* A timestamp and an id about to be encoded.
InitCursor ==
    /\ \E t \in Timestamps, u \in Uuids :
           /\ cursor_ts = t
           /\ cursor_id = u
    /\ cursor_str = <<>>
    /\ decoded = NoDecoded
    /\ pc = "encode_cursor"
    /\ ImportIdle
    /\ OutcomeIdle
    /\ ListingIdle
    /\ EngineIdle

\* Self::encode_cursor(timestamp, id), lines 122-129
EncodeCursor ==
    /\ pc = "encode_cursor"
    /\ cursor_str' = encode_cursor(cursor_ts, cursor_id)
    /\ pc' = "decode_cursor"
    /\ UNCHANGED <<import, outcome_vars, listing_vars, engine_vars,
                   cursor_ts, cursor_id, decoded>>

\* Self::decode_cursor(&cursor_str), lines 131-152
DecodeCursor ==
    /\ pc = "decode_cursor"
    /\ decoded' = decode_cursor(cursor_str)
    /\ pc' = "done"
    /\ UNCHANGED <<import, outcome_vars, listing_vars, engine_vars,
                   cursor_ts, cursor_id, cursor_str>>

SpecCursor == InitCursor /\ [][EncodeCursor \/ DecodeCursor]_vars

(***************************************************************************)
(* The listing of the games, page after page.                              *)
(***************************************************************************)

MaxLimit == 2

Player_a == Uuid_n(3)
Player_b == Uuid_n(5)
Player_c == Uuid_n(9)

\* An id that differs from Uuid_n(8) in its last digit only.
Uuid_8b == [Uuid_n(8) EXCEPT ![32] = 1]

\* The rows the tables are made of: two pairs created in the same
\* microsecond, one row from before the epoch; active and finished games.
GamePool ==
    {[id |-> Uuid_n(1), created_at |-> [micros |-> 1000000, nanos |-> 0],
      white_player |-> Player_a, black_player |-> Player_b, result |-> None],
     [id |-> Uuid_n(7), created_at |-> [micros |-> 1000000, nanos |-> 0],
      white_player |-> Player_b, black_player |-> Player_a,
      result |-> Some("white")],
     [id |-> Uuid_n(8), created_at |-> [micros |-> 999999, nanos |-> 0],
      white_player |-> Player_a, black_player |-> Player_c,
      result |-> Some("draw")],
     [id |-> Uuid_8b, created_at |-> [micros |-> 999999, nanos |-> 0],
      white_player |-> Player_c, black_player |-> Player_a, result |-> None],
     [id |-> Uuid_n(15), created_at |-> [micros |-> -1, nanos |-> 0],
      white_player |-> Player_c, black_player |-> Player_b,
      result |-> Some("black")]}

\* Cursors decode_cursor rejects: a padded text and a lone character (no
\* base64), a byte that is no UTF-8, no comma, a timestamp that is no
\* number, an id that is no Uuid.
BadCursors ==
    {<<"Q", "Q", "=", "=">>,
     <<"T">>,
     <<"_", "w">>,
     URL_SAFE_NO_PAD_encode(<<49, 50, 51>>),
     URL_SAFE_NO_PAD_encode(<<120, 44>> \o Uuid_to_string(Uuid_n(8))),
     URL_SAFE_NO_PAD_encode(<<49, 44, 120, 121, 122>>)}

\* Cursors decode_cursor accepts: the position of a row, and one of no row.
GoodCursors ==
    {encode_cursor([micros |-> 999999, nanos |-> 0], Uuid_n(8)),
     encode_cursor([micros |-> 1000000, nanos |-> 0], Uuid_n(0))}

GameStatuses == {"Waiting", "InProgress", "Completed", "Aborted"}

\* A table, the arguments of the first call, and no call made yet.
InitListing ==
    /\ games_table \in SUBSET GamePool
    /\ page_limit \in 0..MaxLimit
    /\ player_filter \in {None, Some(Player_a)}
    /\ status_filter \in {None} \cup {Some(st) : st \in GameStatuses}
    /\ page_cursor \in {None} \cup {Some(c) : c \in BadCursors \cup GoodCursors}
    /\ asked = <<>>
    /\ page = NoPage
    /\ listed = <<>>
    /\ pc = "list_games"
    /\ ImportIdle
    /\ OutcomeIdle
    /\ CursorIdle
    /\ EngineIdle

\* GameService::list_games(db, cursor, limit, player_id, status), lines
\* 26-120, and the caller's next request, which carries next_cursor.
ListGames ==
    /\ pc = "list_games"
    /\ page' = list_games(games_table, page_cursor, page_limit,
                          player_filter, status_filter)
    /\ asked' = Append(asked, page_cursor)
    /\ listed' = listed \o page'.val.games
    /\ page_cursor' = page'.val.next_cursor
    /\ pc' = IF page'.val.next_cursor # None THEN "list_games" ELSE "done"
    /\ UNCHANGED <<import, outcome_vars, cursor_vars, engine_vars,
                   games_table, page_limit, player_filter, status_filter>>

\* A caller that has a request to make makes it.  ListGames is enabled
\* exactly when pc = "list_games" and every step of it lengthens asked, so
\* the steps of Request within [ListGames]_vars are the steps of ListGames.
Request == pc = "list_games" /\ asked' = Append(asked, page_cursor)

\* The caller goes on asking while it holds a next_cursor.
SpecListing == InitListing /\ [][ListGames]_vars /\ WF_asked(Request)

(***************************************************************************)
(* The suggestions of the engine service, call after call.                 *)
(***************************************************************************)

MaxCalls == 2

\* The arguments of get_suggestion.
Requests ==
    {[fen |-> "fen_a", depth |-> Some(20), time_limit_ms |-> None],
     [fen |-> "fen_b", depth |-> None, time_limit_ms |-> Some(1000)],
     [fen |-> "fen_a", depth |-> None, time_limit_ms |-> None]}

\* The errors a step of the engine may fail with, and the results go may
\* return.
EngineErrors  == {"error_a", "error_b"}
EngineResults == {"bestmove_a", "bestmove_b"}

\* A call of get_suggestion about to start its engine.
InitEngine ==
    /\ request \in Requests
    /\ engines = 0
    /\ issued = <<>>
    /\ search = None
    /\ suggestion = <<>>
    /\ pc = "new"
    /\ ImportIdle
    /\ OutcomeIdle
    /\ CursorIdle
    /\ ListingIdle

\* One step of get_suggestion, with its outcome `out`: the step is taken
\* on the engine of this call; when it succeeds the call goes on to the
\* next step, after quit to `Ok(result)` (line 36); when it fails the call
\* returns the error.
get_suggestion_step(command, out) ==
    LET to == IF out.ok THEN after_success(command)
              ELSE after_failure(command)
        started == IF command = "new" /\ out.ok THEN engines + 1 ELSE engines
    IN  /\ pc = command
        /\ engines' = started
        /\ issued' = Append(issued,
                            [call |-> Len(suggestion) + 1,
                             engine |-> IF command = "new" /\ ~out.ok
                                        THEN 0 ELSE started,
                             command |-> command,
                             arguments |-> step_arguments(command, request),
                             outcome |-> out])
        /\ search' = IF command = "go" /\ out.ok THEN Some(out.val)
                     ELSE search
        /\ suggestion' = IF to # "return" THEN suggestion
                         ELSE IF out.ok THEN Append(suggestion, Ok(search[1]))
                         ELSE Append(suggestion, out)
        /\ pc' = IF to = "return" THEN "done" ELSE to
        /\ UNCHANGED <<import, outcome_vars, cursor_vars, listing_vars,
                       request>>

\* The outcomes of a step.
Outcomes(command) ==
    {Err(e) : e \in EngineErrors}
        \cup IF command = "go" THEN {Ok(r) : r \in EngineResults}
             ELSE {Ok("")}

\* ProcessEngine::new(&self.engine_path).await?, line 23
NewEngine == \E out \in Outcomes("new") : get_suggestion_step("new", out)

\* engine.is_ready().await?, line 24
IsReady ==
    \E out \in Outcomes("is_ready") : get_suggestion_step("is_ready", out)

\* engine.set_position(fen).await?, line 25
SetPosition ==
    \E out \in Outcomes("set_position") :
        get_suggestion_step("set_position", out)

\* engine.go(params).await?, lines 27-33
Go == \E out \in Outcomes("go") : get_suggestion_step("go", out)

\* engine.quit().await?; Ok(result), lines 34-36
Quit == \E out \in Outcomes("quit") : get_suggestion_step("quit", out)

\* The next call of get_suggestion, once the one before has returned.
NextSuggestion ==
    /\ pc = "done"
    /\ Len(suggestion) < MaxCalls
    /\ request' \in Requests
    /\ search' = None
    /\ pc' = "new"
    /\ UNCHANGED <<import, outcome_vars, cursor_vars, listing_vars,
                   engines, issued, suggestion>>

NextEngine ==
    NewEngine \/ IsReady \/ SetPosition \/ Go \/ Quit \/ NextSuggestion

SpecEngine == InitEngine /\ [][NextEngine]_vars

(***************************************************************************)
(* What the claims speak of, stated without the loop of validate_game.     *)
(***************************************************************************)
\* One token played in a position by the rules library alone.
PlayToken(pos, token) ==
    LET san == San_parse(token)
    IN  IF ~san.ok THEN Err("parse")
        ELSE LET m == San_to_move(san.val, pos)
             IN  IF ~m.ok THEN Err("resolve")
                 ELSE LET q == Position_play(pos, m.val)
                      IN  IF ~q.ok THEN Err("apply") ELSE q

\* The initial position with tokens 1..k applied in order, if all apply.
RECURSIVE PositionAfter(_, _)
PositionAfter(moves, k) ==
    IF k = 0 THEN Ok(Chess_default)
    ELSE LET before == PositionAfter(moves, k - 1)
         IN  IF ~before.ok THEN before ELSE PlayToken(before.val, moves[k])

\* The 1-based index of the first token, from the k-th on, that does not
\* apply when the tokens are played in order from pos; 0 if all apply.
RECURSIVE FirstBadFrom(_, _, _)
FirstBadFrom(pos, moves, k) ==
    IF k > Len(moves) THEN 0
    ELSE LET played == PlayToken(pos, moves[k])
         IN  IF ~played.ok THEN k ELSE FirstBadFrom(played.val, moves, k + 1)

\* The 1-based index of the first token that does not apply; 0 if none.
FirstBad(moves) == FirstBadFrom(Chess_default, moves, 1)

Failed == pc = "done" /\ ~result.ok /\ result.err.kind = "IllegalMove"

(***************************************************************************)
(* C1  validate_game is fail-closed.  Nothing is returned before the loop  *)
(* ends.  If a token fails, the return is an IllegalMove for the first     *)
(* such token: the tokens before it, and only they, were pushed, the loop  *)
(* stopped at it and no later token was looked at.  Otherwise the          *)
(* ValidatedGame returned covers every token.                              *)
(***************************************************************************)
C1_FailClosed ==
    LET moves == parsed.moves
        fb    == FirstBad(moves)
    IN  /\ pc # "done" => result = NoResult
        /\ pc = "done" /\ fb = 0 =>
               /\ result.ok
               /\ result.val.moves = moves
        /\ pc = "done" /\ fb > 0 =>
               /\ ~result.ok
               /\ result.err.kind = "IllegalMove"
               /\ result.err.text = moves[fb]
               /\ idx = fb - 1
               /\ validated_moves = SubSeq(moves, 1, fb - 1)
               /\ examined = 0..(fb - 1)

\* A failure at the third of four tokens: two applied, one never seen.
C1_Witness ==
    /\ Failed
    /\ FirstBad(parsed.moves) = 3
    /\ Len(parsed.moves) = 4
    /\ Len(validated_moves) = 2

(***************************************************************************)
(* C2  The position of validate_game starts at the initial setup; after k  *)
(* accepted tokens it is the initial position with tokens 1..k applied in  *)
(* order; the next token is played against exactly that position; and the  *)
(* FEN returned encodes the position after all tokens.                     *)
(***************************************************************************)
C2_PositionTracksTokens ==
    LET moves == parsed.moves
        here  == PositionAfter(moves, idx)
        last  == PositionAfter(moves, Len(moves))
    IN  /\ pc = "validate_game" => idx = 0
        /\ pc = "replay" =>
               /\ here.ok
               /\ position = here.val
               /\ validated_moves = SubSeq(moves, 1, idx)
        /\ Failed =>
               /\ here.ok
               /\ position = here.val
               /\ ~PlayToken(position, moves[idx + 1]).ok
        /\ pc = "done" /\ result.ok =>
               /\ last.ok
               /\ result.val.final_fen = Fen_from_position(last.val)

\* A game of four tokens accepted: each was played in the position the
\* ones before it left.
C2_Witness ==
    /\ pc = "done"
    /\ result.ok
    /\ Len(parsed.moves) = 4
    /\ position # Chess_default

(***************************************************************************)
(* C5  (as the spec states it) With tokens numbered from 1, the            *)
(* move_number of the IllegalMove for the token at position i is           *)
(* floor(i / 2) + 1.                                                       *)
(***************************************************************************)
C5_Original_FloorOfOneBased ==
    Failed => result.err.move_number = (FirstBad(parsed.moves) \div 2) + 1

(***************************************************************************)
(* C5  (amended) With tokens numbered from 1, the move_number of the       *)
(* IllegalMove for the token at position i is floor((i - 1) / 2) + 1.      *)
(***************************************************************************)
C5_MoveNumberFormula ==
    Failed => result.err.move_number = ((FirstBad(parsed.moves) - 1) \div 2) + 1

\* Black's first reply fails: position 2, where the two formulas differ.
C5_Witness ==
    /\ Failed
    /\ FirstBad(parsed.moves) = 2
    /\ result.err.move_number = 1

(***************************************************************************)
(* C6  The move_number follows chess numbering: the tokens at positions    *)
(* 2k - 1 and 2k (from 1) both report k, so a move number is shared by     *)
(* exactly two consecutive tokens; a failing third token after e4 e5       *)
(* reports 2.                                                              *)
(***************************************************************************)
C6_ChessNumbering ==
    Failed =>
        LET i == FirstBad(parsed.moves)
            k == result.err.move_number
        IN  /\ i \in {2 * k - 1, 2 * k}
            /\ (i = 3 /\ SubSeq(parsed.moves, 1, 2) = <<Tok_e4, Tok_e5>>) => k = 2

\* The spec's example: e4 e5 Ke3 fails at the third token with number 2.
C6_Witness ==
    /\ Failed
    /\ Len(parsed.moves) >= 3
    /\ SubSeq(parsed.moves, 1, 3) = <<Tok_e4, Tok_e5, Tok_Ke3>>
    /\ result.err.move_number = 2
    /\ result.err.text = Tok_Ke3

(***************************************************************************)
(* The text of an import, read from what it was written from.              *)
(***************************************************************************)
IsBlank(s) == \A i \in 1..Len(s) : IsSpace(s[i])

KeyIs(tag, name) == to_lowercase(tag.key) = to_lowercase(name)

\* The text holds a tag of that name (in any letter case) with a value.
HasTag(name) ==
    \E i \in 1..Len(src.tags) : KeyIs(src.tags[i], name) /\ src.tags[i].value # <<>>

Canonical(value) == trim(value) \in {Str_1_0, Str_0_1, Str_draw, Str_star}

\* The Result tags with a value that is none of the four literals.
BadResults ==
    {i \in 1..Len(src.tags) :
        /\ KeyIs(src.tags[i], Str_Result)
        /\ src.tags[i].value # <<>>
        /\ ~Canonical(src.tags[i].value)}

\* Every tag has a value, and every Result tag one of the four literals.
ProperTags ==
    /\ \A i \in 1..Len(src.tags) : src.tags[i].value # <<>>
    /\ BadResults = {}

\* The moves of the move text: its words that are no noise.
SanWords(words) == SelectSeq(words, LAMBDA w : w \notin NoiseVocab)

(***************************************************************************)
(* C3  (as the claim states it) For every PGN text with White and Black    *)
(* tags whose move text is a legal move sequence the import succeeds, and  *)
(* a ValidatedGame has ply_count = length of moves and is_valid true.      *)
(***************************************************************************)
C3_Original_AnyTaggedText ==
    /\ pc = "done" /\ HasTag(Str_White) /\ HasTag(Str_Black)
          /\ FirstBad(SanWords(src.words)) = 0
       => result.ok
    /\ pc = "done" /\ result.ok =>
           result.val.ply_count = Len(result.val.moves) /\ result.val.is_valid

(***************************************************************************)
(* C3  (amended) For every PGN text with White and Black tags in which     *)
(* every tag has a non-empty value and every Result tag holds one of the   *)
(* four literals, and whose move text is a legal move sequence, the import *)
(* succeeds with exactly those moves; and in every ValidatedGame returned  *)
(* ply_count equals the length of moves and is_valid is true.              *)
(***************************************************************************)
C3_LegalGameValidates ==
    /\ pc = "done" /\ HasTag(Str_White) /\ HasTag(Str_Black) /\ ProperTags
          /\ FirstBad(SanWords(src.words)) = 0
       => result.ok /\ result.val.moves = SanWords(src.words)
    /\ pc = "done" /\ result.ok =>
           /\ result.val.ply_count = Len(result.val.moves)
           /\ result.val.is_valid = TRUE

\* test_parse_simple_pgn's game: five plies, numbered, with a result.
C3_Witness ==
    /\ pc = "done"
    /\ result.ok
    /\ Len(src.words) = 9
    /\ result.val.moves = <<Tok_e4, Tok_e5, Tok_Nf3, Tok_Nc6, Tok_Bb5>>
    /\ result.val.ply_count = 5

(***************************************************************************)
(* C4  For every PGN text whose tokens hold one that is well-formed SAN    *)
(* but no legal move in the position the tokens before it, all legal, lead *)
(* to, validate_game fails with IllegalMove whose move_text is exactly     *)
(* that token: stated of the moves the text was written from, when its     *)
(* headers are accepted, and of the tokens parse_pgn handed over.          *)
(***************************************************************************)
C4_IllegalTokenReported ==
    LET toks == SanWords(src.words)
        fb   == FirstBad(toks)
        fp   == FirstBad(parsed.moves)
    IN  /\ pc = "done" /\ HasTag(Str_White) /\ HasTag(Str_Black) /\ ProperTags
               /\ fb > 0 /\ San_parse(toks[fb]).ok
            => /\ ~result.ok
               /\ result.err.kind = "IllegalMove"
               /\ result.err.text = toks[fb]
        /\ pc = "done" /\ fp > 0 /\ San_parse(parsed.moves[fp]).ok
            => /\ ~result.ok
               /\ result.err.kind = "IllegalMove"
               /\ result.err.text = parsed.moves[fp]

\* e4 e5 Bb5 d6: the pinned pawn's move is well-formed and not legal.
C4_Witness ==
    /\ Failed
    /\ src.words = <<Tok_e4, Tok_e5, Tok_Bb5, Tok_d6>>
    /\ result.err.text = Tok_d6
    /\ Len(validated_moves) = 3

(***************************************************************************)
(* C7  (as the claim states it) For every non-empty PGN text that lacks a  *)
(* White tag or a Black tag (or whose value is empty), parse_pgn fails     *)
(* with MissingHeader naming the missing tag, whatever else it contains.   *)
(***************************************************************************)
C7_Original_AlwaysMissingHeader ==
    pc = "done" /\ pgn_string # <<>>
       /\ (~HasTag(Str_White) \/ ~HasTag(Str_Black))
    => /\ ~result.ok
       /\ result.err.kind = "MissingHeader"
       /\ \/ result.err.text = Str_White /\ ~HasTag(Str_White)
          \/ result.err.text = Str_Black /\ ~HasTag(Str_Black)

(***************************************************************************)
(* C7  (amended) For every PGN text that is not whitespace-only, that      *)
(* lacks a White tag or a Black tag with a non-empty value, and in which   *)
(* every Result tag with a non-empty value holds one of the four literals, *)
(* parse_pgn fails with MissingHeader naming White if White is missing and *)
(* Black otherwise, whatever other tags and move text it contains.         *)
(***************************************************************************)
C7_MissingHeader ==
    pc = "done" /\ ~IsBlank(pgn_string)
       /\ (~HasTag(Str_White) \/ ~HasTag(Str_Black))
       /\ BadResults = {}
    => result = Err(PgnError("MissingHeader",
                             IF ~HasTag(Str_White) THEN Str_White ELSE Str_Black,
                             0, ""))

\* White is there, Black is not, beside another tag and move text.
C7_Witness ==
    /\ pc = "done"
    /\ HasTag(Str_White) /\ ~HasTag(Str_Black)
    /\ Len(src.tags) >= 2
    /\ src.words # <<>>
    /\ ~result.ok
    /\ result.err.kind = "MissingHeader"
    /\ result.err.text = Str_Black

(***************************************************************************)
(* C8  (as the claim states it) For every PGN text with a Result tag whose *)
(* value, trimmed, is none of 1-0, 0-1, 1/2-1/2, *, parse_pgn fails with   *)
(* InvalidResult carrying that text: for any such value, an empty one      *)
(* too, and wherever the tag stands among the tags.                        *)
(***************************************************************************)
C8_Original_AnyBadResult ==
    \A i \in 1..Len(src.tags) :
        pc = "done" /\ KeyIs(src.tags[i], Str_Result) /\ ~Canonical(src.tags[i].value)
        => result = Err(PgnError("InvalidResult", trim(src.tags[i].value), 0, ""))

(***************************************************************************)
(* C8  (amended) For every PGN text with a Result tag whose value is not   *)
(* empty and, trimmed, is none of 1-0, 0-1, 1/2-1/2, *, parse_pgn fails    *)
(* with InvalidResult carrying the trimmed value of the first such tag,    *)
(* wherever the tag stands among the tags.                                 *)
(***************************************************************************)
C8_InvalidResult ==
    pc = "done" /\ BadResults # {}
    => result = Err(PgnError("InvalidResult",
                             trim(src.tags[MinOf(BadResults)].value), 0, ""))

\* The bad Result tag stands last, after White and Black.
C8_Witness ==
    /\ pc = "done"
    /\ src.tags = <<Tag(Str_White, <<"A">>), Tag(Str_Black, <<"B">>), Tag(Str_Result, <<"x">>)>>
    /\ ~result.ok
    /\ result.err.kind = "InvalidResult"
    /\ result.err.text = <<"x">>

(***************************************************************************)
(* C9  parse_pgn on an empty or whitespace-only text fails with EmptyPgn,  *)
(* and it does so before any tag scanning: parse_headers is never reached  *)
(* and neither MissingHeader nor InvalidResult can come out.               *)
(***************************************************************************)
C9_EmptyPgnFirst ==
    IsBlank(pgn_string) =>
        /\ pc \in {"parse_pgn", "done"}
        /\ hdr = NoHdr
        /\ pc = "done" => result = Err(PgnError("EmptyPgn", <<>>, 0, ""))

\* A text of whitespace only has been refused.
C9_Witness ==
    /\ pc = "done"
    /\ Len(pgn_string) >= 2
    /\ IsBlank(pgn_string)
    /\ ~result.ok
    /\ result.err.kind = "EmptyPgn"

(***************************************************************************)
(* C10  Stripping is lossless across the import: for a text that imports,  *)
(* the text with a brace comment (of any content without a closing brace)  *)
(* or a NAG inserted between two adjacent moves imports too, with the same *)
(* moves, move count, headers and final FEN.                               *)
(***************************************************************************)
C10_AnnotationLossless ==
    pc = "done" /\ base # NoResult =>
        /\ result.ok
        /\ result.val.moves = base.val.moves
        /\ result.val.ply_count = base.val.ply_count
        /\ result.val.headers = base.val.headers
        /\ result.val.final_fen = base.val.final_fen

(***************************************************************************)
(* C11  Validation is idempotent and deterministic: every further call of  *)
(* validate_game on the same ParsedGame returns what the call before it    *)
(* returned (the same error with the same move_number, move_text and       *)
(* reason, or the same moves, ply_count and final FEN), and no step of a   *)
(* call modifies the ParsedGame.                                           *)
(***************************************************************************)
C11_Idempotent ==
    [][/\ parsed' = parsed
       /\ pc' = "done" /\ base' # NoResult => result' = base']_vars

\* A second call has failed as the first did, at the third token.
C11_Witness ==
    /\ pc = "done"
    /\ base # NoResult
    /\ ~result.ok
    /\ result = base
    /\ result.err.move_number = 2
    /\ Len(validated_moves) = 2

(***************************************************************************)
(* C12  The header parser takes tags only from the header block before the *)
(* move text.  When the move text starts with a move, bracketed tag text   *)
(* after it changes no header field and does not move the boundary: the    *)
(* headers are those of the header block alone, the move text is the text  *)
(* after the header block, unmodified, and every move of the text is among *)
(* the tokens.                                                             *)
(***************************************************************************)
C12_TagsOnlyFromHeaderBlock ==
    LET block == trim(Render(src.tags, <<>>))
    IN  src.words # <<>> /\ src.words[1] \in {Tok_e4, Tok_e5} =>
          /\ pc = "parse_moves" =>
                /\ hdr.headers = parse_headers(block).val.headers
                /\ hdr.move_text = SubSeq(pgn, Len(block) + 1, Len(pgn))
          /\ pc = "validate_game" =>
                parsed.moves = SelectSeq(src.words, LAMBDA w : w \in {Tok_e4, Tok_e5})

\* The tags of the text whose key, lowercased, is `name`; and the value of
\* the last of them in the text.
TagsNamed(name) == {i \in 1..Len(src.tags) : to_lowercase(src.tags[i].key) = name}
LastNamed(name) == src.tags[MaxOf(TagsNamed(name))].value

RecognizedKeys ==
    {<<"e","v","e","n","t">>, <<"s","i","t","e">>, <<"d","a","t","e">>,
     <<"r","o","u","n","d">>, <<"w","h","i","t","e">>, <<"b","l","a","c","k">>,
     <<"r","e","s","u","l","t">>}

\* The optional field of a recognised key: the last value, if any.
OptionalField(name) == IF TagsNamed(name) = {} THEN None ELSE Some(LastNamed(name))

\* The outcome a canonical literal stands for.
OutcomeOf(literal) ==
    CASE literal = Str_1_0  -> "WhiteWins"
      [] literal = Str_0_1  -> "BlackWins"
      [] literal = Str_draw -> "Draw"
      [] literal = Str_star -> "Ongoing"

(***************************************************************************)
(* C13  In the headers parse_headers returns, each of the seven recognised *)
(* keys, matched in any letter case, has set its dedicated field; every    *)
(* other key is in `other` exactly as written, with its literal value; and *)
(* of several tags of one key the last in document order is the one kept.  *)
(***************************************************************************)
C13_HeaderFields ==
    pc = "parse_moves" =>
        LET h     == hdr.headers
            tags  == src.tags
            plain == {i \in 1..Len(tags) : to_lowercase(tags[i].key) \notin RecognizedKeys}
        IN  /\ h.event = OptionalField(<<"e","v","e","n","t">>)
            /\ h.site  = OptionalField(<<"s","i","t","e">>)
            /\ h.date  = OptionalField(<<"d","a","t","e">>)
            /\ h.round = OptionalField(<<"r","o","u","n","d">>)
            /\ h.white = LastNamed(<<"w","h","i","t","e">>)
            /\ h.black = LastNamed(<<"b","l","a","c","k">>)
            /\ h.result = IF TagsNamed(<<"r","e","s","u","l","t">>) = {}
                          THEN "Ongoing"
                          ELSE OutcomeOf(LastNamed(<<"r","e","s","u","l","t">>))
            /\ h.other =
                  {<<tags[i].key, tags[i].value>> : i \in
                      {i \in plain : \A j \in plain :
                                         tags[j].key = tags[i].key => j <= i}}

\* Two values for White, in two letter cases, and two for a key that is
\* not recognised: the last of each is kept.
C13_Witness ==
    /\ pc = "parse_moves"
    /\ src.tags = GoodTags \o <<Tag(<<"W","H","I","T","E">>, <<"C">>),
                                 Tag(<<"a">>, <<"b">>), Tag(<<"a">>, <<"c">>)>>
    /\ hdr.headers.white = <<"C">>
    /\ hdr.headers.other = {<<<<"a">>, <<"c">>>>}

\* Digits followed by one or more dots, said without the regex.
IsMoveNumberLabel(t) ==
    \E k \in 1..(Len(t) - 1) :
        /\ \A i \in 1..k : t[i] \in Range(DigitSeq)
        /\ \A i \in (k + 1)..Len(t) : t[i] = "."

IsResultLiteral(t) == t \in {Str_1_0, Str_0_1, Str_draw, Str_star}

\* The words of the text that stripping leaves and the filter keeps.
KeptWords(words) ==
    SelectSeq(words, LAMBDA w : /\ w \notin {Word_comment, Word_nag}
                                /\ ~IsMoveNumberLabel(w)
                                /\ ~IsResultLiteral(w))

(***************************************************************************)
(* C14  The tokens parse_moves returns hold no empty token, no token of    *)
(* digits followed by one or more dots and none of 1-0, 0-1, 1/2-1/2, *;   *)
(* every other whitespace-delimited token left after stripping is among    *)
(* them exactly once, in its original order.                               *)
(***************************************************************************)
C14_TokensFiltered ==
    pc = "validate_game" =>
        /\ \A k \in 1..Len(parsed.moves) :
               /\ parsed.moves[k] # <<>>
               /\ ~IsMoveNumberLabel(parsed.moves[k])
               /\ ~IsResultLiteral(parsed.moves[k])
        /\ ProperTags => parsed.moves = KeptWords(src.words)

\* test_parse_simple_pgn: 1. e4 e5 2. Nf3 Nc6 3. Bb5 1-0 gives 5 tokens.
C14_Witness ==
    /\ pc = "validate_game"
    /\ src.words = <<<<"1",".">>, Tok_e4, Tok_e5, <<"2",".">>, Tok_Nf3, Tok_Nc6,
                     <<"3",".">>, Tok_Bb5, Str_1_0>>
    /\ parsed.moves = <<Tok_e4, Tok_e5, Tok_Nf3, Tok_Nc6, Tok_Bb5>>

(***************************************************************************)
(* C15  The tokenizer never fails: once the headers are accepted parse_pgn *)
(* succeeds whatever the move text holds (the import reaches validate_game *)
(* and ends with a ValidatedGame or an IllegalMove, never a parse error),  *)
(* and a malformed token is reported only by validate_game, as IllegalMove *)
(* with that token and its move number.                                    *)
(***************************************************************************)
C15_TokenizerNeverFails ==
    LET toks == KeptWords(src.words)
        fb   == FirstBad(toks)
    IN  ~IsBlank(pgn_string) /\ HasTag(Str_White) /\ HasTag(Str_Black) /\ BadResults = {} =>
          /\ pc \in {"parse_pgn", "parse_headers"} => result = NoResult
          /\ pc = "parse_moves" => result = NoResult /\ hdr # NoHdr
          /\ pc = "done" => result.ok \/ result.err.kind = "IllegalMove"
          /\ pc = "done" /\ ProperTags /\ fb > 0 /\ ~San_parse(toks[fb]).ok =>
                result = Err(IllegalMove(((fb - 1) \div 2) + 1, toks[fb],
                                         "Invalid move notation"))

\* e4 1.e4: the malformed second token went through parse_pgn and was
\* refused by validate_game.
C15_Witness ==
    /\ pc = "done"
    /\ src.tags = GoodTags
    /\ src.words = <<Tok_e4, Tok_1e4>>
    /\ parsed.moves = <<Tok_e4, Tok_1e4>>
    /\ result = Err(IllegalMove(1, Tok_1e4, "Invalid move notation"))

\* What a word of the move text leaves among the tokens once the
\* parentheticals without parentheses inside are taken out: the main-line
\* moves, and of a nested variation the outer text with its parentheses.
Remainder(w) ==
    CASE w \in {Var_one, Var_two, Var_noted} -> <<>>
      [] w = Var_glued  -> <<Tok_e4, Tok_e5>>
      [] w = Var_nested -> <<<<"(","e","5">>, <<"N","f","3",")">>>>
      [] w = Var_spaced -> <<<<"(">>, Tok_e5, Tok_Nf3, <<")">>>>
      [] OTHER          -> <<w>>

HasNested == \E i \in 1..Len(src.words) : src.words[i] \in NestedVariations

(***************************************************************************)
(* C16  Every parenthesized side variation without parentheses inside is   *)
(* removed completely by parse_moves: nothing of it is among the tokens,   *)
(* and the main-line tokens before and after it are kept, in order and not *)
(* merged with each other.                                                 *)
(***************************************************************************)
C16_FlatVariationRemoved ==
    pc = "validate_game" /\ ~HasNested =>
        /\ parsed.moves = Concat([i \in 1..Len(src.words) |-> Remainder(src.words[i])])
        /\ \A k \in 1..Len(parsed.moves) : parsed.moves[k] \in {Tok_e4, Tok_e5}

\* e4 (d5 Nf3) e4(d4)e5: the tokens are e4, e4, e5.
C16_Witness ==
    /\ pc = "validate_game"
    /\ src.words = <<Tok_e4, Var_two, Var_glued>>
    /\ parsed.moves = <<Tok_e4, Tok_e4, Tok_e5>>

(***************************************************************************)
(* C17  Nested variations are no silent data loss: of a variation nested   *)
(* in another only the innermost parenthetical is removed, the rest of the *)
(* outer variation stays among the tokens with its parentheses, and the    *)
(* import never succeeds with variation moves played as main-line moves:   *)
(* it ends with IllegalMove.                                               *)
(***************************************************************************)
C17_NestedVariationRejected ==
    HasNested =>
        /\ pc = "validate_game" =>
               parsed.moves = Concat([i \in 1..Len(src.words) |-> Remainder(src.words[i])])
        /\ pc = "done" => ~result.ok /\ result.err.kind = "IllegalMove"

\* e4 (e5 (d5) Nf3): e5 and Nf3 would be legal main-line moves; the token
\* (e5 is refused.
C17_Witness ==
    /\ pc = "done"
    /\ src.words = <<Tok_e4, Var_nested>>
    /\ parsed.moves = <<Tok_e4, <<"(","e","5">>, <<"N","f","3",")">>>>
    /\ result = Err(IllegalMove(1, <<"(","e","5">>, "Invalid move notation"))

\* The moves the SAN may denote by the movement rules alone, king safety
\* aside.
PseudoMoves(pos, san) ==
    {m \in {[role |-> san.role, from |-> from, to |-> san.to] : from \in Squares} :
        /\ At(pos.board, m.from) = PieceOf(m.role, pos.turn)
        /\ PseudoLegal(pos, m.from, m.to)}

\* The token denotes a move of a piece that can make it, and every such
\* move leaves the mover's own king in check.
LeavesKingInCheck(pos, token) ==
    LET san == San_parse(token)
    IN  /\ san.ok
        /\ PseudoMoves(pos, san.val) # {}
        /\ \A m \in PseudoMoves(pos, san.val) :
               InCheck(BoardAfter(pos, m.from, m.to), pos.turn)

C19_HeadersAndMovesCarried ==
    pc = "done" /\ result.ok =>
        /\ \A f \in DOMAIN PgnHeaders_default :
               result.val.headers[f] = parsed.headers[f]
        /\ DOMAIN result.val.headers = DOMAIN parsed.headers
        /\ Len(result.val.moves) = Len(parsed.moves)
        /\ \A k \in 1..Len(parsed.moves) : result.val.moves[k] = parsed.moves[k]
        /\ DOMAIN result.val = {"headers", "moves", "final_fen", "ply_count", "is_valid"}
        /\ result.val.ply_count = Len(parsed.moves)
        /\ hdr # NoHdr => parsed = ParsedGame(hdr.headers, parse_moves(hdr.move_text))

\* Event "E" among the tags and two plies played.
C19_Witness ==
    /\ pc = "done" /\ result.ok
    /\ result.val.headers.event = Some(<<"E">>)
    /\ result.val.headers.white = <<"A">>
    /\ result.val.moves = <<Tok_e4, Tok_e5>>
    /\ result.val.ply_count = 2

\* validate_game as one call, from the idx-th token on.
RECURSIVE validate_from(_, _, _)
validate_from(game, pos, i) ==
    IF i = Len(game.moves)
    THEN Ok(ValidatedGame(game, game.moves, pos))
    ELSE LET r == replay_token(pos, i, game.moves[i + 1])
         IN  IF ~r.ok THEN r ELSE validate_from(game, r.val, i + 1)

\* What the import of a text returns when nothing else runs: parse_pgn,
\* then validate_game on what it returned.
ImportAlone(text) ==
    LET trimmed == trim(text)
    IN  IF trimmed = <<>> THEN Err(PgnError("EmptyPgn", <<>>, 0, ""))
        ELSE LET h == parse_headers(trimmed)
             IN  IF ~h.ok THEN h
                 ELSE validate_from(ParsedGame(h.val.headers,
                                               parse_moves(h.val.move_text)),
                                    Chess_default, 0)

(***************************************************************************)
(* C20  Imports are independent under concurrency: of two imports that run *)
(* in parallel on any two texts, under every interleaving of their steps,  *)
(* each returns exactly what it returns when run alone, and returns        *)
(* nothing before its end.                                                 *)
(***************************************************************************)
C20_ParallelImportsIndependent ==
    /\ result = IF pc = "done" THEN ImportAlone(pgn_string) ELSE NoResult
    /\ other.result = IF other.pc = "done" THEN ImportAlone(other.pgn_string)
                      ELSE NoResult

\* Both imports were inside their calls at once; one was accepted after
\* three plies, the other refused at its fourth token.
C20_Witness ==
    /\ pc = "done" /\ other.pc = "done"
    /\ other.overlapped
    /\ result.ok /\ result.val.ply_count = 3
    /\ ~other.result.ok /\ other.result.err.text = Tok_d6
    /\ other.result.err.move_number = 2

\* The literal the spec gives for an outcome.
OutcomeLiteral(r) ==
    CASE r = "WhiteWins" -> <<"1","-","0">>
      [] r = "BlackWins" -> <<"0","-","1">>
      [] r = "Draw"      -> <<"1","/","2","-","1","/","2">>
      [] r = "Ongoing"   -> <<"*">>

(***************************************************************************)
(* C21  The outcome encoding round-trips.  Each of the four GameResult     *)
(* values is encoded as 1-0, 0-1, 1/2-1/2, * (WhiteWins, BlackWins, Draw,  *)
(* Ongoing) and from_pgn_string of the encoding returns the value; and for *)
(* every string from_pgn_string accepts, to_pgn_string of what it returned *)
(* is the string with its surrounding whitespace trimmed.                  *)
(***************************************************************************)
C21_OutcomeRoundTrip ==
    /\ pc = "from_pgn_string" /\ origin.from = "outcome" =>
           result_str = OutcomeLiteral(origin.r)
    /\ pc = "done" /\ origin.from = "outcome" =>
           outcome = Ok(origin.r)
    /\ pc = "done" /\ origin.from = "string" /\ outcome.ok =>
           /\ hops = 2
           /\ result_str = trim(origin.s)

\* " 1/2-1/2" and a line end is accepted as Draw and encoded as 1/2-1/2.
C21_Witness ==
    /\ pc = "done"
    /\ origin.from = "string"
    /\ origin.s = <<" ">> \o Str_draw \o <<"\n">>
    /\ outcome = Ok("Draw")
    /\ result_str = Str_draw

\* The text holds no Result tag with a value.
NoResultTag ==
    \A i \in 1..Len(src.tags) :
        KeyIs(src.tags[i], Str_Result) => src.tags[i].value = <<>>

(***************************************************************************)
(* C22  When the text has a White and a Black tag and no Result tag,       *)
(* parse_pgn succeeds and headers.result is Ongoing; event, site, date and *)
(* round are absent unless their tag is present.                           *)
(***************************************************************************)
C22_DefaultsWithoutTags ==
    HasTag(Str_White) /\ HasTag(Str_Black) /\ NoResultTag =>
        /\ pc = "done" => result.ok \/ result.err.kind = "IllegalMove"
        /\ pc \in {"validate_game", "replay", "done"} =>
               /\ parsed.headers.result = "Ongoing"
               /\ parsed.headers.event = IF HasTag(Str_Event)
                                         THEN Some(LastNamed(<<"e","v","e","n","t">>))
                                         ELSE None
               /\ parsed.headers.site = None
               /\ parsed.headers.date = None
               /\ parsed.headers.round = None

\* White, Black and Event tags and two moves: Ongoing, the event kept.
C22_Witness ==
    /\ pc = "validate_game"
    /\ src.tags = Append(GoodTags, Tag(Str_Event, <<"E">>))
    /\ parsed.headers.result = "Ongoing"
    /\ parsed.headers.event = Some(<<"E">>)
    /\ parsed.headers.site = None
    /\ parsed.moves = <<Tok_e4, Tok_e5>>

\* The moves a word of the move text stands for once its comments are
\* taken out as PGN reads them.
MovesOfWord(w) ==
    CASE w \in {Com_brace_glued, Com_semi_glued, Com_both_glued} -> <<Tok_e4, Tok_e5>>
      [] w \in {Com_brace_semi, Com_semi} -> <<>>
      [] w = Com_semi_brace -> <<>>
      [] OTHER -> <<w>>

MovesOfWords == Concat([i \in 1..Len(src.words) |-> MovesOfWord(src.words[i])])

HasWord(W) == \E i \in 1..Len(src.words) : src.words[i] \in W

(***************************************************************************)
(* C23  Removing a brace comment or a rest-of-line comment never joins the *)
(* text on its two sides into one token: of e4{c}e5, written without       *)
(* whitespace around the comment, parse_moves yields e4 and e5 as two      *)
(* tokens.                                                                 *)
(***************************************************************************)
C23_CommentSeparates ==
    /\ pc = "validate_game"
    /\ HasWord({Com_brace_glued, Com_semi_glued, Com_both_glued})
    /\ ~HasWord({Com_semi_brace})
    => /\ parsed.moves = MovesOfWords
       /\ \A k \in 1..Len(parsed.moves) :
              parsed.moves[k] \in {Tok_e4, Tok_e5, Tok_Nf3}

\* Nf3 e4{c}e5 e4;c(line end)e5: five tokens.
C23_Witness ==
    /\ pc = "validate_game"
    /\ src.words = <<Tok_Nf3, Com_brace_glued, Com_semi_glued>>
    /\ parsed.moves = <<Tok_Nf3, Tok_e4, Tok_e5, Tok_e4, Tok_e5>>

(***************************************************************************)
(* C29  Brace comments are stripped before rest-of-line comments.  An      *)
(* opening brace inside a rest-of-line comment opens a brace comment that  *)
(* runs to the next closing brace, across the line end: the move tokens on *)
(* the following line up to that brace are not among the tokens.  A        *)
(* semicolon inside a brace comment starts no rest-of-line comment: the    *)
(* tokens after the closing brace on the same line are kept.               *)
(***************************************************************************)
C29_BraceBeforeSemicolon ==
    /\ pc = "validate_game"
    /\ HasWord({Com_semi_brace, Com_brace_semi, Com_both_glued})
    => /\ parsed.moves = MovesOfWords
       /\ src.words \in SeqsUpTo({Com_semi_brace}, MaxWords + 1) => parsed.moves = <<>>

\* ;n{(line end)e5}(line end) {a;b} Nf3: e5 is gone, Nf3 is kept.
C29_Witness ==
    /\ pc = "validate_game"
    /\ src.words = <<Com_semi_brace, Com_brace_semi, Tok_Nf3>>
    /\ parsed.moves = <<Tok_Nf3>>

\* How many of the tokens are the token t.
Occurrences(t, tokens) == Len(SelectSeq(tokens, LAMBDA w : w = t))

C24_CursorRoundTrip ==
    /\ pc = "decode_cursor" =>
           /\ cursor_str # <<>>
           /\ \A k \in 1..Len(cursor_str) :
                  \E j \in 1..64 : URL_SAFE[j] = cursor_str[k]
    /\ pc = "done" /\ cursor_id # <<>> =>
           /\ decoded.ok
           /\ decoded.val.id = cursor_id
           /\ decoded.val.timestamp = [micros |-> cursor_ts.micros, nanos |-> 0]

C24_Witness ==
    /\ pc = "done"
    /\ cursor_ts = [micros |-> -1000001, nanos |-> 999]
    /\ cursor_id = Uuid_n(7)
    /\ decoded.ok
    /\ decoded.val.id = Uuid_n(7)
    /\ decoded.val.timestamp.micros = -1000001

\* The games that match the filters of the listing.
Matching ==
    {g \in games_table : matches_filters(g, player_filter, status_filter)}

\* The position the last call was asked to continue from, if its cursor
\* decoded.
LastPosition ==
    LET c == asked[Len(asked)]
    IN  IF c = None THEN Err("") ELSE decode_cursor(c[1])

\* The matching games the last call could return: all of them, or those
\* behind the position of its cursor.
Eligible ==
    IF LastPosition.ok
    THEN {g \in Matching :
             \/ g.created_at.micros < LastPosition.val.timestamp.micros
             \/ /\ g.created_at.micros = LastPosition.val.timestamp.micros
                /\ Uuid_lt(g.id, LastPosition.val.id)}
    ELSE Matching

\* The last call returned a cursor exactly when it left eligible games
\* behind, and the cursor is that of the last game of the page.
CursorTellsMore ==
    LET games == page.val.games
    IN  /\ page.val.next_cursor # None <=> Cardinality(Eligible) > Len(games)
        /\ page.val.next_cursor # None =>
               /\ games # <<>>
               /\ page.val.next_cursor =
                      Some(URL_SAFE_NO_PAD_encode(
                               i64_to_string(games[Len(games)].created_at.micros)
                               \o <<44>>
                               \o Uuid_to_string(games[Len(games)].id)))

C26_PagingComplete ==
    (pc = "list_games" /\ asked = <<>> /\ page_cursor = None /\ page_limit >= 1)
        ~> (/\ pc = "done"
            /\ asked[1] = None
            /\ page_cursor = None
            /\ listed = order_desc(Matching)
            /\ \A i, j \in 1..Len(listed) : i # j => listed[i].id # listed[j].id)

C26_Witness ==
    /\ pc = "done"
    /\ Len(asked) = 5
    /\ asked[1] = None
    /\ page_limit = 1
    /\ Len(listed) = 5
    /\ listed = order_desc(GamePool)

\* C27: list_games never fails because of a bad cursor: a cursor that
\* decode_cursor rejects is ignored, and the call returns what a call with
\* no cursor returns, the first page.
C27_BadCursorIgnored ==
    (Len(asked) = 1 /\ asked[1] # None /\ ~LastPosition.ok) =>
        /\ page.ok
        /\ page = list_games(games_table, None, page_limit,
                             player_filter, status_filter)
        /\ page.val.games =
               SubSeq(order_desc(Matching), 1,
                      IF Cardinality(Matching) < page_limit
                      THEN Cardinality(Matching) ELSE page_limit)

C27_Witness ==
    /\ Len(asked) = 1
    /\ asked[1] = Some(<<"_", "w">>)
    /\ ~LastPosition.ok
    /\ page.ok
    /\ Len(page.val.games) = 2
    /\ page.val.next_cursor # None

\* The steps taken for the call c, in the order they were taken.
StepsOfCall(c) == SelectSeq(issued, LAMBDA st : st.call = c)

\* The steps of a call are the first steps of get_suggestion, in order and
\* each once, all on one engine, and every step but the last succeeded.
InOrder(c) ==
    LET steps == StepsOfCall(c)
    IN  /\ Len(steps) <= 5
        /\ \A k \in 1..Len(steps) :
               /\ steps[k].command = EngineSteps[k]
               /\ k < Len(steps) => steps[k].outcome.ok
               /\ k > 1 => steps[k].engine = steps[1].engine

\* What the call c returned agrees with its steps: the error of the step
\* that failed, or the result of go once quit succeeded.
ReturnOf(c) ==
    LET steps == StepsOfCall(c)
        last  == steps[Len(steps)]
    IN  /\ steps # <<>>
        /\ IF suggestion[c].ok
           THEN /\ Len(steps) = 5
                /\ last.outcome.ok
                /\ steps[4].outcome.ok
                /\ suggestion[c] = Ok(steps[4].outcome.val)
           ELSE /\ ~last.outcome.ok
                /\ suggestion[c] = last.outcome

\* C28: get_suggestion starts one fresh engine per call and issues
\* is_ready, set_position, go, quit in that order, each step only after
\* all earlier steps succeeded; the search result is returned only if quit
\* also succeeds, and when a step fails its error is returned at once and
\* no later step, in particular no quit, is issued to that engine.
C28_StepsInOrder ==
    issued # <<>> =>
        LET calls == Len(suggestion) + (IF pc = "done" THEN 0 ELSE 1)
        IN  /\ \A k \in 1..Len(issued) : issued[k].call \in 1..calls
            /\ \A c \in 1..calls : InOrder(c)
            /\ \A c \in 1..Len(suggestion) : ReturnOf(c)
            /\ \A k \in 1..Len(issued) :
                   ~issued[k].outcome.ok =>
                       /\ issued[k].call <= Len(suggestion)
                       /\ \A j \in (k + 1)..Len(issued) :
                              issued[j].call > issued[k].call
            /\ \A j, k \in 1..Len(issued) :
                   (issued[j].engine = issued[k].engine /\ issued[j].engine # 0)
                       => issued[j].call = issued[k].call
            /\ pc \notin {"done", "new"} =>
                   /\ Len(StepsOfCall(calls)) = step_index(pc) - 1
                   /\ \A k \in 1..Len(StepsOfCall(calls)) :
                          StepsOfCall(calls)[k].outcome.ok

C28_Witness ==
    /\ pc = "done"
    /\ Len(suggestion) = 2
    /\ ~suggestion[1].ok
    /\ Len(StepsOfCall(1)) = 4
    /\ suggestion[2] = Ok("bestmove_b")
    /\ Len(StepsOfCall(2)) = 5
    /\ StepsOfCall(2)[5].command = "quit"
    /\ StepsOfCall(2)[1].engine = 2

=============================================================================
